---- MODULE Spec2Model ----
(***************************************************************************)
(* Content marketplace settlement layer: ContentRegistry (content          *)
(* lifecycle and purchase), ContentRewardDistribution (referral graph and  *)
(* five-leg payout) and the ERC20 ledger they move value through.          *)
(* Every transaction is atomic: it either commits all of its writes or     *)
(* reverts and leaves the chain state as it was.  The variable `last` is a *)
(* history variable naming the most recent call and its outcome.           *)
(***************************************************************************)
EXTENDS Integers, Sequences, FiniteSets, TLC

\* ---------------------------------------------------------------- bounds
MaxTime == 2
MaxPayouts == 2
MaxSteps == 4
MaxLongSteps == 6

\* ------------------------------------------------------------ identities
ZERO == "0x0"
Admin == "admin"
Registry == "registry"
Engine == "engine"
EvalT == "evalT"
PlatT == "platT"
Users == {"u1", "u2", "u3", "u4"}
Addrs == {ZERO, Admin, Registry, Engine, EvalT, PlatT} \cup Users

\* two deployments of TOASTToken; the Engine's token is fixed by its
\* constructor, the Registry's can be replaced by setRoastToken
Tokens == {"TOAST", "ALT"}
EngineToken == "TOAST"

\* the ledgers of `balances`: the two tokens and the chain's native coin
NATIVE == "ETH"
Ledgers == Tokens \cup {NATIVE}

Tiers == {"SILVER", "GOLD", "PLATINUM", "EMERALD", "DIAMOND", "UNICORN"}

MINER_RATE == 5000
EVALUATOR_RATE == 2000
PLATFORM_RATE == 3000
RATE_SCALE == 10000
MAX_DIRECT_RATE == 1000
MAX_GRAND_RATE == 500

\* ---------------------------------------------------------------- inputs
ContentIds == {1, 2}

VARIABLES
    contents, contentExistsMap, userContents, totalContent,
    rewardDistribution, roastToken, regPaused,
    userReferrals, totalReferralEarnings, payouts, totalPayouts,
    directReferrerRates, grandReferrerRates,
    evaluatorTreasury, platformTreasury, engPaused,
    balances, allowances, nonces, tokPaused,
    regStatus, engStatus, pending,
    now, steps, last

regVars == <<contents, contentExistsMap, userContents, totalContent,
             rewardDistribution, roastToken, regPaused>>
engVars == <<userReferrals, totalReferralEarnings, payouts, totalPayouts,
             directReferrerRates, grandReferrerRates,
             evaluatorTreasury, platformTreasury, engPaused>>
tokVars == <<balances, allowances, nonces, tokPaused>>
chainVars == <<regVars, engVars, tokVars>>
\* the ReentrancyGuard status of the Registry and of the Engine, and the
\* guarded call that is suspended in a token transfer, if any
guardVars == <<regStatus, engStatus, pending>>
vars == <<regVars, engVars, tokVars, guardVars, now, steps, last>>

\* ------------------------------------------------------- zero-valued data
NoContent ==
    [contentId |-> 0, creator |-> ZERO, currentOwner |-> ZERO,
     contentHash |-> "", personalizedHash |-> "", price |-> 0,
     isAvailable |-> FALSE, isApproved |-> FALSE, isPersonalized |-> FALSE,
     createdAt |-> 0, approvedAt |-> 0, soldAt |-> 0, personalizedAt |-> 0,
     contentType |-> ""]

NoReferral ==
    [directReferrer |-> ZERO, grandReferrer |-> ZERO, tier |-> "SILVER",
     isActive |-> FALSE, totalEarnings |-> 0, totalReferrals |-> 0]

NoPayout ==
    [contentId |-> 0, buyer |-> ZERO, miner |-> ZERO, totalAmount |-> 0,
     minerAmount |-> 0, evaluatorAmount |-> 0, platformAmount |-> 0,
     directReferrerAmount |-> 0, grandReferrerAmount |-> 0,
     residualPlatformAmount |-> 0, timestamp |-> 0, completed |-> FALSE]

InitDirectRates ==
    [t \in Tiers |-> CASE t = "SILVER" -> 500
                       [] t = "GOLD" -> 750
                       [] OTHER -> 1000]

InitGrandRates ==
    [t \in Tiers |-> CASE t = "SILVER" -> 250
                       [] t = "GOLD" -> 375
                       [] OTHER -> 500]

\* the record `last` of a call: what was called, by whom, and how it ended;
\* a call that reverted (ok = FALSE) or only read the state keeps in `prev` the
\* record of a call and its outcome; a reverted call keeps in `prev` the record
\* of the last committed call, to which Resume returns
Call(op, ok, who, id, amt) ==
    [op |-> op, ok |-> ok, who |-> who, id |-> id, amt |-> amt,
     ret |-> "none", legs |-> <<>>, failedLeg |-> "none", events |-> <<>>,
     res |-> <<>>, prev |-> IF ok THEN <<>> ELSE last]

\* ------------------------------------------------------------ ERC20 ledger
\* TOASTToken.transfer: ERC20 _transfer/_update with the pause gate
TransferOk(bal, paused, tok, from, to, amt) ==
    /\ from # ZERO
    /\ to # ZERO
    /\ ~paused[tok]
    /\ bal[tok][from] >= amt

Move(bal, tok, from, to, amt) ==
    LET debited == [bal[tok] EXCEPT ![from] = @ - amt]
    IN  [bal EXCEPT ![tok] = [debited EXCEPT ![to] = @ + amt]]

\* TOASTToken.transferFrom as called by the Registry (the spender)
TransferFromOk(bal, alw, paused, tok, from, to, amt) ==
    /\ alw[tok][from] >= amt
    /\ TransferOk(bal, paused, tok, from, to, amt)

SpendAllowance(alw, tok, from, amt) ==
    [alw EXCEPT ![tok][from] = @ - amt]


\* ------------------------------------------------- Reward Distribution Engine
\* variant: the grand referrer is paid at the direct referrer's rate
CalculateReferralPayoutsOneRate(buyer, amount) ==
    LET referralData == userReferrals[buyer]
        directAmount == (amount * directReferrerRates[referralData.tier]) \div RATE_SCALE
        grandAmount ==
            IF referralData.grandReferrer # ZERO
               /\ userReferrals[referralData.grandReferrer].isActive
            THEN (amount * directReferrerRates[referralData.tier]) \div RATE_SCALE
            ELSE 0
    IN  IF ~referralData.isActive
        THEN [direct |-> 0, grand |-> 0, total |-> 0]
        ELSE [direct |-> directAmount, grand |-> grandAmount,
              total |-> directAmount + grandAmount]

\* variant: a named grand referrer is paid whether or not its record is active
CalculateReferralPayoutsAnyGrand(buyer, amount) ==
    LET referralData == userReferrals[buyer]
        directAmount == (amount * directReferrerRates[referralData.tier]) \div RATE_SCALE
        grandAmount ==
            IF referralData.grandReferrer # ZERO
            THEN (amount * grandReferrerRates[referralData.tier]) \div RATE_SCALE
            ELSE 0
    IN  IF ~referralData.isActive
        THEN [direct |-> 0, grand |-> 0, total |-> 0]
        ELSE [direct |-> directAmount, grand |-> grandAmount,
              total |-> directAmount + grandAmount]

\* variant: the buyer's record is used whether or not it is active
CalculateReferralPayoutsAnyRecord(buyer, amount) ==
    LET referralData == userReferrals[buyer]
        directAmount == (amount * directReferrerRates[referralData.tier]) \div RATE_SCALE
        grandAmount ==
            IF referralData.grandReferrer # ZERO
               /\ userReferrals[referralData.grandReferrer].isActive
            THEN (amount * grandReferrerRates[referralData.tier]) \div RATE_SCALE
            ELSE 0
    IN  [direct |-> directAmount, grand |-> grandAmount,
         total |-> directAmount + grandAmount]

\* _calculateReferralPayouts(_buyer, _totalAmount)
CalculateReferralPayouts(buyer, amount) ==
    LET referralData == userReferrals[buyer]
        directAmount == (amount * directReferrerRates[referralData.tier]) \div RATE_SCALE
        grandAmount ==
            IF referralData.grandReferrer # ZERO
               /\ userReferrals[referralData.grandReferrer].isActive
            THEN (amount * grandReferrerRates[referralData.tier]) \div RATE_SCALE
            ELSE 0
    IN  IF ~referralData.isActive
        THEN [direct |-> 0, grand |-> 0, total |-> 0]
        ELSE [direct |-> directAmount, grand |-> grandAmount,
              total |-> directAmount + grandAmount]

\* variant: the platform treasury is paid before the evaluator treasury
TransferLegsPlatformFirst(buyer, miner, minerAmount, evaluatorAmount, residualAmount, directAmount, grandAmount) ==
    LET all == << [name |-> "miner", to |-> miner, amt |-> minerAmount],
                  [name |-> "residual", to |-> platformTreasury, amt |-> residualAmount],
                  [name |-> "evaluator", to |-> evaluatorTreasury, amt |-> evaluatorAmount],
                  [name |-> "direct", to |-> userReferrals[buyer].directReferrer,
                   amt |-> directAmount],
                  [name |-> "grand", to |-> userReferrals[buyer].grandReferrer,
                   amt |-> grandAmount] >>
        Attempted(leg) == leg.name = "miner" \/ leg.amt > 0
    IN  SelectSeq(all, Attempted)

\* variant: the evaluator share is sent to the platform treasury
TransferLegsEvaluatorToPlatform(buyer, miner, minerAmount, evaluatorAmount, residualAmount, directAmount, grandAmount) ==
    LET all == << [name |-> "miner", to |-> miner, amt |-> minerAmount],
                  [name |-> "evaluator", to |-> platformTreasury, amt |-> evaluatorAmount],
                  [name |-> "residual", to |-> platformTreasury, amt |-> residualAmount],
                  [name |-> "direct", to |-> userReferrals[buyer].directReferrer,
                   amt |-> directAmount],
                  [name |-> "grand", to |-> userReferrals[buyer].grandReferrer,
                   amt |-> grandAmount] >>
        Attempted(leg) == leg.name = "miner" \/ leg.amt > 0
    IN  SelectSeq(all, Attempted)

\* the transfers _executeTransfers attempts, in its order; the miner leg is
\* unconditional, the other four are skipped when their amount is zero
TransferLegs(buyer, miner, minerAmount, evaluatorAmount, residualAmount, directAmount, grandAmount) ==
    LET all == << [name |-> "miner", to |-> miner, amt |-> minerAmount],
                  [name |-> "evaluator", to |-> evaluatorTreasury, amt |-> evaluatorAmount],
                  [name |-> "residual", to |-> platformTreasury, amt |-> residualAmount],
                  [name |-> "direct", to |-> userReferrals[buyer].directReferrer,
                   amt |-> directAmount],
                  [name |-> "grand", to |-> userReferrals[buyer].grandReferrer,
                   amt |-> grandAmount] >>
        Attempted(leg) == leg.name = "miner" \/ leg.amt > 0
    IN  SelectSeq(all, Attempted)

\* try roastToken.transfer(...) {} catch { return false; } for each leg in turn
RECURSIVE ExecuteTransfers(_, _, _, _)
ExecuteTransfers(bal, legs, i, paid) ==
    IF i > Len(legs)
    THEN [bal |-> bal, success |-> TRUE, paid |-> paid, failedLeg |-> "none"]
    ELSE IF TransferOk(bal, tokPaused, EngineToken, Engine, legs[i].to, legs[i].amt)
         THEN ExecuteTransfers(Move(bal, EngineToken, Engine, legs[i].to, legs[i].amt),
                               legs, i + 1, Append(paid, legs[i]))
         ELSE [bal |-> bal, success |-> FALSE, paid |-> paid,
               failedLeg |-> legs[i].name]

\* variant: only the records are credited, not totalReferralEarnings
UpdateReferralStatsRecordOnly(buyer, directAmount, grandAmount) ==
    LET referralData == userReferrals[buyer]
        d == referralData.directReferrer
        g == referralData.grandReferrer
        refs1 == IF directAmount > 0
                 THEN [userReferrals EXCEPT ![d].totalEarnings = @ + directAmount,
                                            ![d].totalReferrals = @ + 1]
                 ELSE userReferrals
        refs2 == IF grandAmount > 0
                 THEN [refs1 EXCEPT ![g].totalEarnings = @ + grandAmount]
                 ELSE refs1
    IN  [refs |-> refs2, earn |-> totalReferralEarnings]

\* variant: the grand referrer's referral count is incremented too
UpdateReferralStatsCountsGrand(buyer, directAmount, grandAmount) ==
    LET referralData == userReferrals[buyer]
        d == referralData.directReferrer
        g == referralData.grandReferrer
        earn1 == IF directAmount > 0
                 THEN [totalReferralEarnings EXCEPT ![d] = @ + directAmount]
                 ELSE totalReferralEarnings
        refs1 == IF directAmount > 0
                 THEN [userReferrals EXCEPT ![d].totalEarnings = @ + directAmount,
                                            ![d].totalReferrals = @ + 1]
                 ELSE userReferrals
        earn2 == IF grandAmount > 0
                 THEN [earn1 EXCEPT ![g] = @ + grandAmount]
                 ELSE earn1
        refs2 == IF grandAmount > 0
                 THEN [refs1 EXCEPT ![g].totalEarnings = @ + grandAmount,
                                    ![g].totalReferrals = @ + 1]
                 ELSE refs1
    IN  [refs |-> refs2, earn |-> earn2]

\* variant: the earnings are set to the latest amount instead of added up
UpdateReferralStatsLatest(buyer, directAmount, grandAmount) ==
    LET referralData == userReferrals[buyer]
        d == referralData.directReferrer
        g == referralData.grandReferrer
        earn1 == IF directAmount > 0
                 THEN [totalReferralEarnings EXCEPT ![d] = @ + directAmount]
                 ELSE totalReferralEarnings
        refs1 == IF directAmount > 0
                 THEN [userReferrals EXCEPT ![d].totalEarnings = directAmount,
                                            ![d].totalReferrals = @ + 1]
                 ELSE userReferrals
        earn2 == IF grandAmount > 0
                 THEN [earn1 EXCEPT ![g] = @ + grandAmount]
                 ELSE earn1
        refs2 == IF grandAmount > 0
                 THEN [refs1 EXCEPT ![g].totalEarnings = grandAmount]
                 ELSE refs1
    IN  [refs |-> refs2, earn |-> earn2]

\* _updateReferralStats(_buyer, _directAmount, _grandAmount)
UpdateReferralStats(buyer, directAmount, grandAmount) ==
    LET referralData == userReferrals[buyer]
        d == referralData.directReferrer
        g == referralData.grandReferrer
        earn1 == IF directAmount > 0
                 THEN [totalReferralEarnings EXCEPT ![d] = @ + directAmount]
                 ELSE totalReferralEarnings
        refs1 == IF directAmount > 0
                 THEN [userReferrals EXCEPT ![d].totalEarnings = @ + directAmount,
                                            ![d].totalReferrals = @ + 1]
                 ELSE userReferrals
        earn2 == IF grandAmount > 0
                 THEN [earn1 EXCEPT ![g] = @ + grandAmount]
                 ELSE earn1
        refs2 == IF grandAmount > 0
                 THEN [refs1 EXCEPT ![g].totalEarnings = @ + grandAmount]
                 ELSE refs1
    IN  [refs |-> refs2, earn |-> earn2]

\* variant: the referral shares are not taken out of the platform share
ResidualPlatformAmountWhole(platformAmount, totalReferralAmount) ==
    platformAmount

\* residualPlatformAmount = platformAmount - totalReferralAmount
ResidualPlatformAmount(platformAmount, totalReferralAmount) ==
    platformAmount - totalReferralAmount

\* variant: only the Registry may call processContentPurchase
ProcessCallerAdmittedRegistryOnly(caller) == caller = Registry

\* processContentPurchase is external with nonReentrant and whenNotPaused:
\* no modifier and no require looks at msg.sender
ProcessCallerAdmitted(caller) == TRUE

\* variant: the Engine refuses a purchase it cannot pay out in full
ProcessRequireFunded(buyer, miner, amount) ==
    /\ ~engPaused
    /\ buyer # ZERO
    /\ miner # ZERO
    /\ amount > 0
    /\ (amount * PLATFORM_RATE) \div RATE_SCALE
          >= CalculateReferralPayouts(buyer, amount).total
    /\ balances[EngineToken][Engine] >= amount

\* the modifiers, requires and checked subtraction of processContentPurchase
ProcessRequire(buyer, miner, amount) ==
    /\ ~engPaused
    /\ buyer # ZERO
    /\ miner # ZERO
    /\ amount > 0
    /\ (amount * PLATFORM_RATE) \div RATE_SCALE
          >= CalculateReferralPayouts(buyer, amount).total

\* variant: a payout paid in full marks the earlier records completed as well
StorePayoutSettlesEarlier(ledger, payoutId, record) ==
    [i \in DOMAIN ledger |->
        IF i = payoutId THEN record
        ELSE IF i < payoutId
             THEN [ledger[i] EXCEPT !.completed = @ \/ record.completed]
             ELSE ledger[i]]

\* variant: the record overwrites the latest one instead of taking a new index
StorePayoutAtLatest(ledger, payoutId, record) ==
    [ledger EXCEPT ![IF payoutId > 0 THEN payoutId - 1 ELSE 0] = record]

\* payouts[payoutId] = PayoutRecord({...})
StorePayout(ledger, payoutId, record) ==
    [ledger EXCEPT ![payoutId] = record]

\* variant: the distribution event is emitted whatever the transfers did
ProcessBodyAlwaysEmits(bal, contentId, buyer, miner, amount) ==
    LET minerAmount == (amount * MINER_RATE) \div RATE_SCALE
        evaluatorAmount == (amount * EVALUATOR_RATE) \div RATE_SCALE
        platformAmount == (amount * PLATFORM_RATE) \div RATE_SCALE
        ref == CalculateReferralPayouts(buyer, amount)
        residual == ResidualPlatformAmount(platformAmount, ref.total)
        payoutId == totalPayouts
        record == [contentId |-> contentId, buyer |-> buyer, miner |-> miner,
                   totalAmount |-> amount, minerAmount |-> minerAmount,
                   evaluatorAmount |-> evaluatorAmount,
                   platformAmount |-> platformAmount,
                   directReferrerAmount |-> ref.direct,
                   grandReferrerAmount |-> ref.grand,
                   residualPlatformAmount |-> residual,
                   timestamp |-> now, completed |-> FALSE]
        legs == TransferLegs(buyer, miner, minerAmount, evaluatorAmount,
                             residual, ref.direct, ref.grand)
        x == ExecuteTransfers(bal, legs, 1, <<>>)
        stats == IF x.success /\ ref.total > 0
                 THEN UpdateReferralStats(buyer, ref.direct, ref.grand)
                 ELSE [refs |-> userReferrals, earn |-> totalReferralEarnings]
    IN  [payouts |-> StorePayout(payouts, payoutId,
                                 [record EXCEPT !.completed = x.success]),
         totalPayouts |-> totalPayouts + 1,
         refs |-> stats.refs, earn |-> stats.earn, bal |-> x.bal,
         ret |-> IF x.success THEN "true" ELSE "false",
         legs |-> x.paid, failedLeg |-> x.failedLeg,
         events |-> <<"PayoutDistributed">>]

\* body of processContentPurchase, run on the ledger `bal` of the enclosing
\* transaction; yields the Engine's and the ledger's new values
ProcessBody(bal, contentId, buyer, miner, amount) ==
    LET minerAmount == (amount * MINER_RATE) \div RATE_SCALE
        evaluatorAmount == (amount * EVALUATOR_RATE) \div RATE_SCALE
        platformAmount == (amount * PLATFORM_RATE) \div RATE_SCALE
        ref == CalculateReferralPayouts(buyer, amount)
        residual == ResidualPlatformAmount(platformAmount, ref.total)
        payoutId == totalPayouts
        record == [contentId |-> contentId, buyer |-> buyer, miner |-> miner,
                   totalAmount |-> amount, minerAmount |-> minerAmount,
                   evaluatorAmount |-> evaluatorAmount,
                   platformAmount |-> platformAmount,
                   directReferrerAmount |-> ref.direct,
                   grandReferrerAmount |-> ref.grand,
                   residualPlatformAmount |-> residual,
                   timestamp |-> now, completed |-> FALSE]
        legs == TransferLegs(buyer, miner, minerAmount, evaluatorAmount,
                             residual, ref.direct, ref.grand)
        x == ExecuteTransfers(bal, legs, 1, <<>>)
        stats == IF x.success /\ ref.total > 0
                 THEN UpdateReferralStats(buyer, ref.direct, ref.grand)
                 ELSE [refs |-> userReferrals, earn |-> totalReferralEarnings]
    IN  [payouts |-> StorePayout(payouts, payoutId,
                                 [record EXCEPT !.completed = x.success]),
         totalPayouts |-> totalPayouts + 1,
         refs |-> stats.refs, earn |-> stats.earn, bal |-> x.bal,
         ret |-> IF x.success THEN "true" ELSE "false",
         legs |-> x.paid, failedLeg |-> x.failedLeg,
         events |-> IF x.success THEN <<"PayoutDistributed">> ELSE <<>>]

\* processContentPurchase called directly on the Engine (no caller restriction)
processContentPurchase(caller, contentId, buyer, miner, amount) ==
    LET ok == ProcessCallerAdmitted(caller) /\ ProcessRequire(buyer, miner, amount)
        r == ProcessBody(balances, contentId, buyer, miner, amount)
    IN  /\ ok => totalPayouts < MaxPayouts
        /\ IF ok
           THEN /\ payouts' = r.payouts
                /\ totalPayouts' = r.totalPayouts
                /\ userReferrals' = r.refs
                /\ totalReferralEarnings' = r.earn
                /\ balances' = r.bal
                /\ last' = [Call("processContentPurchase", TRUE, caller, contentId, amount)
                              EXCEPT !.ret = r.ret, !.legs = r.legs,
                                     !.failedLeg = r.failedLeg, !.events = r.events,
                                     !.res = <<buyer, miner>>]
           ELSE /\ UNCHANGED <<payouts, totalPayouts, userReferrals,
                               totalReferralEarnings, balances>>
                /\ last' = [Call("processContentPurchase", FALSE, caller, contentId, amount)
                              EXCEPT !.res = <<buyer, miner>>]
        /\ UNCHANGED <<regVars, directReferrerRates, grandReferrerRates,
                       evaluatorTreasury, platformTreasury, engPaused,
                       allowances, nonces, tokPaused, now>>


\* calculateReferralPayout: the external view of _calculateReferralPayouts
calculateReferralPayout(caller, buyer, amount) ==
    LET r == CalculateReferralPayouts(buyer, amount)
    IN  /\ last' = [Call("calculateReferralPayout", TRUE, caller, 0, amount)
                      EXCEPT !.res = <<buyer, r.direct, r.grand, r.total>>,
                             !.prev = last]
        /\ UNCHANGED <<chainVars, now>>

\* variant: the direct and the grand referrer may be the same identity
RegisterReferralRequireSameReferrers(caller, user, directReferrer, grandReferrer) ==
    /\ caller = Admin
    /\ user # ZERO
    /\ directReferrer # ZERO
    /\ user # directReferrer
    /\ user # grandReferrer

\* variant: a user cannot take as direct referrer someone it refers itself
RegisterReferralRequireAcyclic(caller, user, directReferrer, grandReferrer) ==
    /\ caller = Admin
    /\ user # ZERO
    /\ directReferrer # ZERO
    /\ user # directReferrer
    /\ user # grandReferrer
    /\ directReferrer # grandReferrer
    /\ ~(/\ userReferrals[directReferrer].isActive
         /\ userReferrals[directReferrer].directReferrer = user)

\* variant: a user who already has a record cannot be registered again
RegisterReferralRequireOnce(caller, user, directReferrer, grandReferrer) ==
    /\ caller = Admin
    /\ user # ZERO
    /\ directReferrer # ZERO
    /\ user # directReferrer
    /\ user # grandReferrer
    /\ directReferrer # grandReferrer
    /\ userReferrals[user].directReferrer = ZERO

RegisterReferralRequire(caller, user, directReferrer, grandReferrer) ==
    /\ caller = Admin
    /\ user # ZERO
    /\ directReferrer # ZERO
    /\ user # directReferrer
    /\ user # grandReferrer
    /\ directReferrer # grandReferrer

registerReferral(caller, user, directReferrer, grandReferrer, tier) ==
    LET ok == RegisterReferralRequire(caller, user, directReferrer, grandReferrer)
    IN  /\ last' = [Call("registerReferral", ok, caller, 0, 0)
                      EXCEPT !.res = <<user, directReferrer, grandReferrer, tier>>]
        /\ IF ok
           THEN /\ userReferrals' = [userReferrals EXCEPT ![user] =
                      [directReferrer |-> directReferrer,
                       grandReferrer |-> grandReferrer, tier |-> tier,
                       isActive |-> TRUE, totalEarnings |-> 0,
                       totalReferrals |-> 0]]
           ELSE UNCHANGED <<userReferrals>>
        /\ UNCHANGED <<regVars, tokVars, totalReferralEarnings, payouts,
                       totalPayouts, directReferrerRates, grandReferrerRates,
                       evaluatorTreasury, platformTreasury, engPaused, now>>

updateUserTier(caller, user, newTier) ==
    LET ok == caller = Admin /\ userReferrals[user].isActive
    IN  /\ last' = [Call("updateUserTier", ok, caller, 0, 0)
                      EXCEPT !.res = <<user, userReferrals[user].tier, newTier>>]
        /\ IF ok
           THEN /\ userReferrals' = [userReferrals EXCEPT ![user].tier = newTier]
           ELSE UNCHANGED <<userReferrals>>
        /\ UNCHANGED <<regVars, tokVars, totalReferralEarnings, payouts,
                       totalPayouts, directReferrerRates, grandReferrerRates,
                       evaluatorTreasury, platformTreasury, engPaused, now>>

\* variant: deactivation deletes the record
DeactivatedRecordDeleted(record) == NoReferral

\* userReferrals[_user].isActive = false
DeactivatedRecord(record) == [record EXCEPT !.isActive = FALSE]

deactivateReferral(caller, user) ==
    LET ok == caller = Admin
    IN  /\ last' = [Call("deactivateReferral", ok, caller, 0, 0)
                      EXCEPT !.res = <<user>>]
        /\ IF ok
           THEN /\ userReferrals' = [userReferrals EXCEPT ![user] = DeactivatedRecord(@)]
           ELSE UNCHANGED <<userReferrals>>
        /\ UNCHANGED <<regVars, tokVars, totalReferralEarnings, payouts,
                       totalPayouts, directReferrerRates, grandReferrerRates,
                       evaluatorTreasury, platformTreasury, engPaused, now>>

\* variant: only the direct rate is limited
UpdateReferralRatesRequireDirectOnly(caller, directRate, grandRate) ==
    /\ caller = Admin
    /\ directRate <= MAX_DIRECT_RATE

UpdateReferralRatesRequire(caller, directRate, grandRate) ==
    /\ caller = Admin
    /\ directRate <= MAX_DIRECT_RATE
    /\ grandRate <= MAX_GRAND_RATE

updateReferralRates(caller, tier, directRate, grandRate) ==
    LET ok == UpdateReferralRatesRequire(caller, directRate, grandRate)
    IN  /\ last' = [Call("updateReferralRates", ok, caller, 0, 0)
                      EXCEPT !.res = <<tier, directRate, grandRate>>]
        /\ IF ok
           THEN /\ directReferrerRates' = [directReferrerRates EXCEPT ![tier] = directRate]
                /\ grandReferrerRates' = [grandReferrerRates EXCEPT ![tier] = grandRate]
           ELSE UNCHANGED <<directReferrerRates, grandReferrerRates>>
        /\ UNCHANGED <<regVars, tokVars, userReferrals, totalReferralEarnings,
                       payouts, totalPayouts, evaluatorTreasury,
                       platformTreasury, engPaused, now>>

setEvaluatorTreasury(caller, a) ==
    LET ok == caller = Admin /\ a # ZERO
    IN  /\ last' = [Call("setEvaluatorTreasury", ok, caller, 0, 0) EXCEPT !.res = <<a>>]
        /\ IF ok
           THEN evaluatorTreasury' = a
           ELSE UNCHANGED <<evaluatorTreasury>>
        /\ UNCHANGED <<regVars, tokVars, userReferrals, totalReferralEarnings,
                       payouts, totalPayouts, directReferrerRates,
                       grandReferrerRates, platformTreasury, engPaused, now>>

setPlatformTreasury(caller, a) ==
    LET ok == caller = Admin /\ a # ZERO
    IN  /\ last' = [Call("setPlatformTreasury", ok, caller, 0, 0) EXCEPT !.res = <<a>>]
        /\ IF ok
           THEN platformTreasury' = a
           ELSE UNCHANGED <<platformTreasury>>
        /\ UNCHANGED <<regVars, tokVars, userReferrals, totalReferralEarnings,
                       payouts, totalPayouts, directReferrerRates,
                       grandReferrerRates, evaluatorTreasury, engPaused, now>>

\* Engine pause() / unpause(): Pausable._pause needs not-paused, _unpause paused
EngineSetPaused(op, caller, on) ==
    LET ok == caller = Admin /\ engPaused # on
    IN  /\ last' = Call(op, ok, caller, 0, 0)
        /\ IF ok
           THEN engPaused' = on
           ELSE UNCHANGED <<engPaused>>
        /\ UNCHANGED <<regVars, tokVars, userReferrals, totalReferralEarnings,
                       payouts, totalPayouts, directReferrerRates,
                       grandReferrerRates, evaluatorTreasury, platformTreasury, now>>


enginePause(caller) == EngineSetPaused("enginePause", caller, TRUE)

engineUnpause(caller) == EngineSetPaused("engineUnpause", caller, FALSE)

\* ------------------------------------------------------------ Content Registry
\* variant: an id already registered is accepted again
RegisterContentRequireAnyId(contentId, creator, contentHash, contentType) ==
    /\ creator # ZERO
    /\ contentHash # ""
    /\ contentType # ""

\* requires of registerContent
RegisterContentRequire(contentId, creator, contentHash, contentType) ==
    /\ creator # ZERO
    /\ ~contentExistsMap[contentId]
    /\ contentHash # ""
    /\ contentType # ""

\* variant: registration leaves currentOwner unset
NewContentOwnerless(contentId, creator, contentHash, contentType) ==
    [NoContent EXCEPT !.contentId = contentId,
                      !.creator = creator,
                      !.contentHash = contentHash,
                      !.createdAt = now,
                      !.contentType = contentType]

\* variant: a content is put on sale by its registration
NewContentOnSale(contentId, creator, contentHash, contentType) ==
    [NoContent EXCEPT !.contentId = contentId,
                      !.creator = creator,
                      !.currentOwner = creator,
                      !.contentHash = contentHash,
                      !.isAvailable = TRUE,
                      !.createdAt = now,
                      !.contentType = contentType]

\* contents[_contentId] = Content({...}) of registerContent
NewContent(contentId, creator, contentHash, contentType) ==
    [NoContent EXCEPT !.contentId = contentId,
                      !.creator = creator,
                      !.currentOwner = creator,
                      !.contentHash = contentHash,
                      !.createdAt = now,
                      !.contentType = contentType]

registerContent(caller, contentId, creator, contentHash, contentType) ==
    LET ok == RegisterContentRequire(contentId, creator, contentHash, contentType)
    IN  /\ last' = [Call("registerContent", ok, caller, contentId, 0)
                      EXCEPT !.res = <<creator, contentHash, contentType>>]
        /\ IF ok
           THEN /\ contents' = [contents EXCEPT ![contentId] =
                      NewContent(contentId, creator, contentHash, contentType)]
                /\ contentExistsMap' = [contentExistsMap EXCEPT ![contentId] = TRUE]
                /\ totalContent' = totalContent + 1
           ELSE UNCHANGED <<contents, contentExistsMap, totalContent>>
        /\ UNCHANGED <<userContents, rewardDistribution, roastToken, regPaused,
                       engVars, tokVars, now>>

\* variant: an approved content may be approved again
ApproveContentRequireAgain(caller, contentId, price) ==
    /\ caller = Admin
    /\ contentExistsMap[contentId]
    /\ price > 0

\* variant: the guard looks at isAvailable instead of isApproved
ApproveContentRequireUnlisted(caller, contentId, price) ==
    /\ caller = Admin
    /\ contentExistsMap[contentId]
    /\ ~contents[contentId].isAvailable
    /\ price > 0

\* onlyOwner, contentExists and the requires of approveContent
ApproveContentRequire(caller, contentId, price) ==
    /\ caller = Admin
    /\ contentExistsMap[contentId]
    /\ ~contents[contentId].isApproved
    /\ price > 0

\* variant: the index is kept free of duplicates
PushUserContentOnce(index, user, contentId) ==
    IF \E i \in 1..Len(index[user]) : index[user][i] = contentId
    THEN index
    ELSE [index EXCEPT ![user] = Append(@, contentId)]

\* userContents[user].push(contentId)
PushUserContent(index, user, contentId) ==
    [index EXCEPT ![user] = Append(@, contentId)]

approveContent(caller, contentId, price) ==
    LET ok == ApproveContentRequire(caller, contentId, price)
        content == contents[contentId]
    IN  /\ last' = Call("approveContent", ok, caller, contentId, price)
        /\ IF ok
           THEN /\ contents' = [contents EXCEPT ![contentId] =
                      [content EXCEPT !.currentOwner = content.creator,
                                      !.price = price,
                                      !.isAvailable = TRUE,
                                      !.isApproved = TRUE,
                                      !.approvedAt = now]]
                /\ userContents' = PushUserContent(userContents, content.creator,
                                                   contentId)
           ELSE UNCHANGED <<contents, userContents>>
        /\ UNCHANGED <<contentExistsMap, totalContent, rewardDistribution,
                       roastToken, regPaused, engVars, tokVars, now>>

\* variant: the price of a sold content may still be updated
UpdatePriceRequireAfterSale(caller, contentId, newPrice) ==
    /\ caller = Admin
    /\ contentExistsMap[contentId]
    /\ contents[contentId].isApproved
    /\ newPrice > 0

\* onlyOwner, contentExists and the requires of updatePrice
UpdatePriceRequire(caller, contentId, newPrice) ==
    /\ caller = Admin
    /\ contentExistsMap[contentId]
    /\ contents[contentId].isApproved
    /\ contents[contentId].isAvailable
    /\ newPrice > 0

updatePrice(caller, contentId, newPrice) ==
    LET ok == UpdatePriceRequire(caller, contentId, newPrice)
    IN  /\ last' = [Call("updatePrice", ok, caller, contentId, newPrice)
                      EXCEPT !.res = <<contents[contentId].price>>]
        /\ IF ok
           THEN contents' = [contents EXCEPT ![contentId].price = newPrice]
           ELSE UNCHANGED contents
        /\ UNCHANGED <<contentExistsMap, userContents, totalContent,
                       rewardDistribution, roastToken, regPaused, engVars,
                       tokVars, now>>

\* variant: the purchase functions lack whenNotPaused
PurchaseRequireUngated(contentId) ==
    /\ contentExistsMap[contentId]
    /\ contents[contentId].isAvailable

\* modifiers and require of purchaseContent / purchaseContentWithPermit
PurchaseRequire(contentId) ==
    /\ ~regPaused
    /\ contentExistsMap[contentId]
    /\ contents[contentId].isAvailable

\* variant: a failing transferFrom is not noticed
PullPaymentUnchecked(bal, alw, buyer, price) ==
    LET paid == TransferFromOk(bal, alw, tokPaused, roastToken, buyer, Registry, price)
    IN  [ok |-> TRUE,
         bal |-> IF paid THEN Move(bal, roastToken, buyer, Registry, price) ELSE bal,
         alw |-> IF paid THEN SpendAllowance(alw, roastToken, buyer, price) ELSE alw]

\* IERC20(roastToken).transferFrom(msg.sender, address(this), content.price)
PullPayment(bal, alw, buyer, price) ==
    [ok |-> TransferFromOk(bal, alw, tokPaused, roastToken, buyer, Registry, price),
     bal |-> Move(bal, roastToken, buyer, Registry, price),
     alw |-> SpendAllowance(alw, roastToken, buyer, price)]

\* variant: the price is forwarded and processContentPurchase called whether
\* variant: a revert of the Engine is caught and the purchase goes on
PurchaseBodyCatchesEngine(buyer, contentId, alw) ==
    LET content == contents[contentId]
        previousOwner == content.currentOwner
        price == content.price
        pull == PullPayment(balances, alw, buyer, price)
        sold == [content EXCEPT !.currentOwner = buyer,
                                !.isAvailable = FALSE,
                                !.soldAt = now]
        index == PushUserContent(userContents, buyer, contentId)
        forwardOk == TransferOk(pull.bal, tokPaused, roastToken, Registry,
                                rewardDistribution, price)
        forwarded == Move(pull.bal, roastToken, Registry, rewardDistribution, price)
        engineOk == rewardDistribution = Engine
                    /\ ProcessRequire(buyer, previousOwner, price)
        e == ProcessBody(forwarded, contentId, buyer, previousOwner, price)
        kept == [aborted |-> FALSE,
                 contents |-> [contents EXCEPT ![contentId] = sold],
                 userContents |-> index, bal |-> pull.bal, alw |-> pull.alw,
                 payouts |-> payouts, totalPayouts |-> totalPayouts,
                 refs |-> userReferrals, earn |-> totalReferralEarnings,
                 ret |-> "none", legs |-> <<>>, failedLeg |-> "none",
                 events |-> <<"ContentPurchased">>, miner |-> previousOwner]
    IN  IF ~pull.ok THEN [aborted |-> TRUE]
        ELSE IF rewardDistribution = ZERO THEN kept
        ELSE IF ~forwardOk THEN [aborted |-> TRUE]
        ELSE IF ~engineOk THEN [kept EXCEPT !.bal = forwarded]
        ELSE [kept EXCEPT !.bal = e.bal, !.payouts = e.payouts,
                          !.totalPayouts = e.totalPayouts, !.refs = e.refs,
                          !.earn = e.earn, !.ret = e.ret, !.legs = e.legs,
                          !.failedLeg = e.failedLeg,
                          !.events = e.events \o <<"ContentPurchased">>]

\* variant: the Registry calls the Engine without sending it the price
PurchaseBodyKeepsPrice(buyer, contentId, alw) ==
    LET content == contents[contentId]
        previousOwner == content.currentOwner
        price == content.price
        pull == PullPayment(balances, alw, buyer, price)
        sold == [content EXCEPT !.currentOwner = buyer,
                                !.isAvailable = FALSE,
                                !.soldAt = now]
        index == PushUserContent(userContents, buyer, contentId)
        forwardOk == TRUE
        forwarded == pull.bal
        engineOk == rewardDistribution = Engine
                    /\ ProcessRequire(buyer, previousOwner, price)
        e == ProcessBody(forwarded, contentId, buyer, previousOwner, price)
        kept == [aborted |-> FALSE,
                 contents |-> [contents EXCEPT ![contentId] = sold],
                 userContents |-> index, bal |-> pull.bal, alw |-> pull.alw,
                 payouts |-> payouts, totalPayouts |-> totalPayouts,
                 refs |-> userReferrals, earn |-> totalReferralEarnings,
                 ret |-> "none", legs |-> <<>>, failedLeg |-> "none",
                 events |-> <<"ContentPurchased">>, miner |-> previousOwner]
    IN  IF ~pull.ok THEN [aborted |-> TRUE]
        ELSE IF rewardDistribution = ZERO THEN kept
        ELSE IF ~forwardOk \/ ~engineOk THEN [aborted |-> TRUE]
        ELSE [kept EXCEPT !.bal = e.bal, !.payouts = e.payouts,
                          !.totalPayouts = e.totalPayouts, !.refs = e.refs,
                          !.earn = e.earn, !.ret = e.ret, !.legs = e.legs,
                          !.failedLeg = e.failedLeg,
                          !.events = e.events \o <<"ContentPurchased">>]

\* or not a reward distribution address is configured
PurchaseBodyAlwaysForwards(buyer, contentId, alw) ==
    LET content == contents[contentId]
        previousOwner == content.currentOwner
        price == content.price
        pull == PullPayment(balances, alw, buyer, price)
        sold == [content EXCEPT !.currentOwner = buyer,
                                !.isAvailable = FALSE,
                                !.soldAt = now]
        index == PushUserContent(userContents, buyer, contentId)
        forwardOk == TransferOk(pull.bal, tokPaused, roastToken, Registry,
                                rewardDistribution, price)
        forwarded == Move(pull.bal, roastToken, Registry, rewardDistribution, price)
        engineOk == rewardDistribution = Engine
                    /\ ProcessRequire(buyer, previousOwner, price)
        e == ProcessBody(forwarded, contentId, buyer, previousOwner, price)
        kept == [aborted |-> FALSE,
                 contents |-> [contents EXCEPT ![contentId] = sold],
                 userContents |-> index, bal |-> pull.bal, alw |-> pull.alw,
                 payouts |-> payouts, totalPayouts |-> totalPayouts,
                 refs |-> userReferrals, earn |-> totalReferralEarnings,
                 ret |-> "none", legs |-> <<>>, failedLeg |-> "none",
                 events |-> <<"ContentPurchased">>, miner |-> previousOwner]
    IN  IF ~pull.ok THEN [aborted |-> TRUE]
        ELSE IF ~forwardOk \/ ~engineOk THEN [aborted |-> TRUE]
        ELSE [kept EXCEPT !.bal = e.bal, !.payouts = e.payouts,
                          !.totalPayouts = e.totalPayouts, !.refs = e.refs,
                          !.earn = e.earn, !.ret = e.ret, !.legs = e.legs,
                          !.failedLeg = e.failedLeg,
                          !.events = e.events \o <<"ContentPurchased">>]

\* the purchase from the transferFrom on, given the allowances `alw` in force;
\* `aborted` is a revert of the whole transaction
PurchaseBody(buyer, contentId, alw) ==
    LET content == contents[contentId]
        previousOwner == content.currentOwner
        price == content.price
        pull == PullPayment(balances, alw, buyer, price)
        sold == [content EXCEPT !.currentOwner = buyer,
                                !.isAvailable = FALSE,
                                !.soldAt = now]
        index == PushUserContent(userContents, buyer, contentId)
        forwardOk == TransferOk(pull.bal, tokPaused, roastToken, Registry,
                                rewardDistribution, price)
        forwarded == Move(pull.bal, roastToken, Registry, rewardDistribution, price)
        engineOk == rewardDistribution = Engine
                    /\ ProcessRequire(buyer, previousOwner, price)
        e == ProcessBody(forwarded, contentId, buyer, previousOwner, price)
        kept == [aborted |-> FALSE,
                 contents |-> [contents EXCEPT ![contentId] = sold],
                 userContents |-> index, bal |-> pull.bal, alw |-> pull.alw,
                 payouts |-> payouts, totalPayouts |-> totalPayouts,
                 refs |-> userReferrals, earn |-> totalReferralEarnings,
                 ret |-> "none", legs |-> <<>>, failedLeg |-> "none",
                 events |-> <<"ContentPurchased">>, miner |-> previousOwner]
    IN  IF ~pull.ok THEN [aborted |-> TRUE]
        ELSE IF rewardDistribution = ZERO THEN kept
        ELSE IF ~forwardOk \/ ~engineOk THEN [aborted |-> TRUE]
        ELSE [kept EXCEPT !.bal = e.bal, !.payouts = e.payouts,
                          !.totalPayouts = e.totalPayouts, !.refs = e.refs,
                          !.earn = e.earn, !.ret = e.ret, !.legs = e.legs,
                          !.failedLeg = e.failedLeg,
                          !.events = e.events \o <<"ContentPurchased">>]

\* commit of a purchase outcome `r`, or the revert that leaves only `last`;
\* `last.res` keeps the previous owner and the call's further arguments `args`
PurchaseCommit(op, buyer, contentId, ok, r, nonces1, args) ==
    /\ IF ok
       THEN /\ contents' = r.contents
            /\ userContents' = r.userContents
            /\ balances' = r.bal
            /\ allowances' = r.alw
            /\ nonces' = nonces1
            /\ payouts' = r.payouts
            /\ totalPayouts' = r.totalPayouts
            /\ userReferrals' = r.refs
            /\ totalReferralEarnings' = r.earn
            /\ last' = [Call(op, TRUE, buyer, contentId, contents[contentId].price)
                          EXCEPT !.ret = r.ret, !.legs = r.legs,
                                 !.failedLeg = r.failedLeg, !.events = r.events,
                                 !.res = <<r.miner>> \o args]
       ELSE /\ UNCHANGED <<contents, userContents, balances, allowances, nonces,
                           payouts, totalPayouts, userReferrals,
                           totalReferralEarnings>>
            /\ last' = [Call(op, FALSE, buyer, contentId, contents[contentId].price)
                          EXCEPT !.res = <<contents[contentId].currentOwner>> \o args]
    /\ UNCHANGED <<contentExistsMap, totalContent, rewardDistribution,
                   roastToken, regPaused, directReferrerRates,
                   grandReferrerRates, evaluatorTreasury, platformTreasury,
                   engPaused, tokPaused, now>>

purchaseContent(buyer, contentId) ==
    LET pre == PurchaseRequire(contentId)
        r == PurchaseBody(buyer, contentId, allowances)
        ok == pre /\ ~r.aborted
    IN  /\ (ok /\ rewardDistribution # ZERO) => totalPayouts < MaxPayouts
        /\ PurchaseCommit("purchaseContent", buyer, contentId, ok, r, nonces, <<>>)

\* ERC20Permit.permit(owner, spender = Registry, value, deadline, v, r, s);
\* sigValid: the signature recovers to `owner` over (owner, spender, value,
\* current nonce, deadline)
\* variant: the permit's deadline is not looked at
PermitOkAnyDeadline(deadline, sigValid) ==
    sigValid

PermitOk(deadline, sigValid) ==
    /\ now <= deadline
    /\ sigValid

purchaseContentWithPermit(buyer, contentId, deadline, sigValid) ==
    LET pre == PurchaseRequire(contentId)
        price == contents[contentId].price
        permitted == PermitOk(deadline, sigValid)
        alw1 == [allowances EXCEPT ![roastToken][buyer] = price]
        nonces1 == [nonces EXCEPT ![roastToken][buyer] = @ + 1]
        r == PurchaseBody(buyer, contentId, alw1)
        ok == pre /\ permitted /\ ~r.aborted
    IN  /\ (ok /\ rewardDistribution # ZERO) => totalPayouts < MaxPayouts
        /\ PurchaseCommit("purchaseContentWithPermit", buyer, contentId, ok, r, nonces1,
                          <<deadline, sigValid>>)

\* variant: the creator, not the current owner, may personalize
MarkPersonalizedRequireCreator(caller, contentId, personalizedHash) ==
    /\ contentExistsMap[contentId]
    /\ contents[contentId].creator = caller
    /\ ~contents[contentId].isPersonalized
    /\ personalizedHash # ""

\* variant: a personalized content may be personalized again
MarkPersonalizedRequireRepeatable(caller, contentId, personalizedHash) ==
    /\ contentExistsMap[contentId]
    /\ contents[contentId].currentOwner = caller
    /\ personalizedHash # ""

\* contentExists and the requires of markContentPersonalized
MarkPersonalizedRequire(caller, contentId, personalizedHash) ==
    /\ contentExistsMap[contentId]
    /\ contents[contentId].currentOwner = caller
    /\ ~contents[contentId].isPersonalized
    /\ personalizedHash # ""

markContentPersonalized(caller, contentId, personalizedHash) ==
    LET ok == MarkPersonalizedRequire(caller, contentId, personalizedHash)
    IN  /\ last' = [Call("markContentPersonalized", ok, caller, contentId, 0)
                      EXCEPT !.res = <<personalizedHash>>]
        /\ IF ok
           THEN contents' = [contents EXCEPT
                                ![contentId].personalizedHash = personalizedHash,
                                ![contentId].isPersonalized = TRUE,
                                ![contentId].personalizedAt = now]
           ELSE UNCHANGED contents
        /\ UNCHANGED <<contentExistsMap, userContents, totalContent,
                       rewardDistribution, roastToken, regPaused, engVars,
                       tokVars, now>>

setRewardDistribution(caller, a) ==
    LET ok == caller = Admin
    IN  /\ last' = [Call("setRewardDistribution", ok, caller, 0, 0) EXCEPT !.res = <<a>>]
        /\ IF ok /\ a # rewardDistribution
           THEN rewardDistribution' = a
           ELSE UNCHANGED <<rewardDistribution>>
        /\ UNCHANGED <<contents, contentExistsMap, userContents, totalContent,
                       roastToken, regPaused, engVars, tokVars, now>>

setRoastToken(caller, tok) ==
    LET ok == caller = Admin /\ tok # ZERO
    IN  /\ last' = [Call("setRoastToken", ok, caller, 0, 0) EXCEPT !.res = <<tok>>]
        /\ IF ok /\ tok # roastToken
           THEN roastToken' = tok
           ELSE UNCHANGED <<roastToken>>
        /\ UNCHANGED <<contents, contentExistsMap, userContents, totalContent,
                       rewardDistribution, regPaused, engVars, tokVars, now>>

RegistrySetPaused(op, caller, on) ==
    LET ok == caller = Admin /\ regPaused # on
    IN  /\ last' = Call(op, ok, caller, 0, 0)
        /\ IF ok
           THEN regPaused' = on
           ELSE UNCHANGED <<regPaused>>
        /\ UNCHANGED <<contents, contentExistsMap, userContents, totalContent,
                       rewardDistribution, roastToken, engVars, tokVars, now>>

registryPause(caller) == RegistrySetPaused("registryPause", caller, TRUE)

registryUnpause(caller) == RegistrySetPaused("registryUnpause", caller, FALSE)


\* ------------------------------------------------------ emergency withdrawal
\* variant: emergencyWithdrawToken without onlyOwner
EmergencyWithdrawTokenRequireAnyone(caller, holder, tok, amt) ==
    /\ tok # ZERO
    /\ TransferOk(balances, tokPaused, tok, holder, Admin, amt)

\* onlyOwner, require(_token != address(0)) and the token's transfer to owner()
EmergencyWithdrawTokenRequire(caller, holder, tok, amt) ==
    /\ caller = Admin
    /\ tok # ZERO
    /\ TransferOk(balances, tokPaused, tok, holder, Admin, amt)

\* emergencyWithdrawToken(_token, _amount) of the contract `holder`
EmergencyWithdrawToken(op, caller, holder, tok, amt) ==
    LET ok == EmergencyWithdrawTokenRequire(caller, holder, tok, amt)
    IN  /\ last' = [Call(op, ok, caller, 0, amt) EXCEPT !.res = <<tok>>]
        /\ balances' = IF ok THEN Move(balances, tok, holder, Admin, amt) ELSE balances
        /\ UNCHANGED <<regVars, engVars, allowances, nonces, tokPaused, now>>

registryEmergencyWithdrawToken(caller, tok, amt) ==
    EmergencyWithdrawToken("registryEmergencyWithdrawToken", caller, Registry, tok, amt)

engineEmergencyWithdrawToken(caller, tok, amt) ==
    EmergencyWithdrawToken("engineEmergencyWithdrawToken", caller, Engine, tok, amt)

\* ContentRegistry.emergencyWithdrawETH(): the whole native balance to owner()
emergencyWithdrawETH(caller) ==
    LET ok == caller = Admin
        balance == balances[NATIVE][Registry]
    IN  /\ last' = Call("emergencyWithdrawETH", ok, caller, 0, balance)
        /\ balances' = IF ok /\ balance > 0
                       THEN Move(balances, NATIVE, Registry, Admin, balance)
                       ELSE balances
        /\ UNCHANGED <<regVars, engVars, allowances, nonces, tokPaused, now>>

\* receive() external payable: a plain transfer of native coin to the Registry
sendETH(from, amt) ==
    LET ok == balances[NATIVE][from] >= amt
    IN  /\ last' = Call("sendETH", ok, from, 0, amt)
        /\ balances' = IF ok THEN Move(balances, NATIVE, from, Registry, amt) ELSE balances
        /\ UNCHANGED <<regVars, engVars, allowances, nonces, tokPaused, now>>

\* ------------------------------------------------------------- token holders
\* ERC20.approve(Registry, amount) by a holder
tokenApprove(owner, tok, amount) ==
    /\ allowances' = [allowances EXCEPT ![tok][owner] = amount]
    /\ last' = [Call("tokenApprove", TRUE, owner, 0, amount) EXCEPT !.res = <<tok>>]
    /\ UNCHANGED <<regVars, engVars, balances, nonces, tokPaused, now>>

\* TOASTToken.pause() / unpause() by the token's owner
TokenSetPaused(op, caller, tok, on) ==
    LET ok == caller = Admin /\ tokPaused[tok] # on
    IN  /\ last' = [Call(op, ok, caller, 0, 0) EXCEPT !.res = <<tok>>]
        /\ IF ok
           THEN tokPaused' = [tokPaused EXCEPT ![tok] = on]
           ELSE UNCHANGED <<tokPaused>>
        /\ UNCHANGED <<regVars, engVars, balances, allowances, nonces, now>>

tokenPause(caller, tok) == TokenSetPaused("tokenPause", caller, tok, TRUE)

tokenUnpause(caller, tok) == TokenSetPaused("tokenUnpause", caller, tok, FALSE)

\* block.timestamp advances between transactions
Tick ==
    /\ now < MaxTime
    /\ now' = now + 1
    /\ last' = Call("Tick", TRUE, ZERO, 0, 0)
    /\ UNCHANGED chainVars

\* ------------------------------------------------------------ specifications
\* state after the three constructors and the distribution of tokens to the
\* participants; `engineFunds` is what the Engine holds of its own token
InitWith(engineFunds, engine, token) ==
    /\ contents = [i \in ContentIds |-> NoContent]
    /\ contentExistsMap = [i \in ContentIds |-> FALSE]
    /\ userContents = [a \in Addrs |-> <<>>]
    /\ totalContent = 0
    /\ rewardDistribution = engine
    /\ roastToken = token
    /\ regPaused = FALSE
    /\ userReferrals = [a \in Addrs |-> NoReferral]
    /\ totalReferralEarnings = [a \in Addrs |-> 0]
    /\ payouts = [i \in 0..(MaxPayouts - 1) |-> NoPayout]
    /\ totalPayouts = 0
    /\ directReferrerRates = InitDirectRates
    /\ grandReferrerRates = InitGrandRates
    /\ evaluatorTreasury = EvalT
    /\ platformTreasury = PlatT
    /\ engPaused = FALSE
    /\ balances = [t \in Ledgers |-> [a \in Addrs |->
                      CASE a = "u2" -> 1000
                        [] a = "u1" /\ t = "TOAST" -> 39
                        [] a = Engine /\ t = EngineToken -> engineFunds
                        [] OTHER -> 0]]
    /\ allowances = [t \in Tokens |-> [a \in Addrs |-> 0]]
    /\ nonces = [t \in Tokens |-> [a \in Addrs |-> 0]]
    /\ tokPaused = [t \in Tokens |-> FALSE]
    /\ regStatus = "NOT_ENTERED"
    /\ engStatus = "NOT_ENTERED"
    /\ pending = <<>>
    /\ now = 1
    /\ steps = 0
    /\ last = [op |-> "constructor", ok |-> TRUE, who |-> Admin, id |-> 0,
               amt |-> 0, ret |-> "none", legs |-> <<>>, failedLeg |-> "none",
               events |-> <<>>, res |-> <<>>, prev |-> <<>>]

\* the Registry as constructed (no Engine, the TOAST token), and as the
\* deployment scripts configure it with setRewardDistribution / setRoastToken
Deployments ==
    {[funds |-> 0, engine |-> ZERO, token |-> "TOAST"],
     [funds |-> 0, engine |-> Engine, token |-> "TOAST"],
     [funds |-> 600, engine |-> Engine, token |-> "ALT"]}

Init == \E d \in Deployments : InitWith(d.funds, d.engine, d.token)

\* inputs of the calls explored
Buyers == {"u1", "u2"}
Callers == {Admin, "u2"}
RegisterInputs == {<<"u1", "Qm1", "text">>, <<ZERO, "Qm1", "text">>,
                   <<"u1", "", "text">>, <<"u1", "Qm1", "">>}
PriceInputs == {<<Admin, 39>>, <<Admin, 1000>>, <<Admin, 0>>, <<"u2", 1000>>}
PermitInputs == {<<MaxTime, TRUE>>, <<0, TRUE>>, <<MaxTime, FALSE>>}
EngineInputs == {<<Admin, Engine>>, <<Admin, ZERO>>, <<Admin, "u3">>, <<"u2", Engine>>}
ReferralInputs == {<<Admin, "u2", "u3", ZERO>>, <<"u2", "u2", "u3", ZERO>>,
                   <<Admin, "u2", "u2", ZERO>>}
TokenInputs == {<<Admin, "ALT">>, <<Admin, "TOAST">>, <<Admin, ZERO>>, <<"u2", "ALT">>}

\* A call is made on the chain state left by the last committed call; a call
\* that changes the chain state uses one unit of the exploration budget.
Tx(call) ==
    /\ last.prev = <<>>
    /\ pending = <<>>
    /\ call
    /\ UNCHANGED guardVars
    /\ steps' = IF chainVars' = chainVars THEN steps ELSE steps + 1
    /\ steps' <= MaxSteps

\* A reverted call or a view leaves no trace on the chain: execution resumes
\* from the state of the last committed call.
Resume ==
    /\ last.prev # <<>>
    /\ last' = last.prev
    /\ UNCHANGED <<chainVars, guardVars, now, steps>>

Next ==
    \/ \E id \in ContentIds, in \in RegisterInputs :
          Tx(registerContent("u2", id, in[1], in[2], in[3]))
    \/ \E id \in ContentIds, in \in PriceInputs : Tx(approveContent(in[1], id, in[2]))
    \/ \E id \in ContentIds, in \in PriceInputs : Tx(updatePrice(in[1], id, in[2]))
    \/ \E b \in Buyers, id \in ContentIds : Tx(purchaseContent(b, id))
    \/ \E b \in Buyers, id \in ContentIds, in \in PermitInputs :
          Tx(purchaseContentWithPermit(b, id, in[1], in[2]))
    \/ \E who \in Buyers, id \in ContentIds, h \in {"", "QmP"} :
          Tx(markContentPersonalized(who, id, h))
    \/ \E in \in EngineInputs : Tx(setRewardDistribution(in[1], in[2]))
    \/ \E in \in TokenInputs : Tx(setRoastToken(in[1], in[2]))
    \/ \E who \in Callers : Tx(registryPause(who))
    \/ \E who \in Callers : Tx(registryUnpause(who))
    \/ \E a \in {39, 1000} : Tx(tokenApprove("u2", roastToken, a))
    \/ \E in \in ReferralInputs :
          Tx(registerReferral(in[1], in[2], in[3], in[4], "SILVER"))
    \/ Resume

Spec == Init /\ [][Next]_vars


\* ------------------------------------------- the Engine called on its own
\* the Engine as constructed, holding `funds` of its token (the tests fund it
\* by a plain transfer before calling processContentPurchase)
EngineFunds == {0, 600, 800, 950, 980, 2000}

InitEngine == \E f \in EngineFunds : InitWith(f, ZERO, "TOAST")

Amounts == {0, 39, 1000}
ProcessInputs == {<<"u2", "u1">>, <<ZERO, "u1">>}
GraphInputs == {<<Admin, "u2", "u3", "u4">>, <<Admin, "u2", "u3", ZERO>>,
                <<Admin, "u4", "u3", ZERO>>, <<Admin, "u2", "u2", "u4">>,
                <<Admin, "u2", "u3", "u2">>, <<Admin, "u2", "u3", "u3">>}
GraphTiers == {"SILVER", "GOLD"}
RateInputs == {<<Admin, 1000, 500>>, <<Admin, 1001, 0>>, <<Admin, 0, 501>>,
               <<"u2", 0, 0>>}

NextEngine ==
    \/ \E a \in Amounts, in \in ProcessInputs :
          Tx(processContentPurchase("u3", 1, in[1], in[2], a))
    \/ \E a \in Amounts \ {0} : Tx(calculateReferralPayout("u3", "u2", a))
    \/ \E in \in GraphInputs, t \in GraphTiers :
          Tx(registerReferral(in[1], in[2], in[3], in[4],
                              IF in[2] = "u2" THEN t ELSE "SILVER"))
    \/ Tx(updateUserTier(Admin, "u2", "UNICORN"))
    \/ \E u \in {"u2", "u4"} : Tx(deactivateReferral(Admin, u))
    \/ \E in \in RateInputs : Tx(updateReferralRates(in[1], "SILVER", in[2], in[3]))
    \/ Resume

SpecEngine == InitEngine /\ [][NextEngine]_vars

\* ------------------------------------------- the owner's switches and time
InitAdmin == InitWith(1000, ZERO, "TOAST")

NextAdmin ==
    \/ \E a \in Amounts \ {0} : Tx(processContentPurchase("u3", 1, "u2", "u1", a))
    \/ Tx(registerReferral(Admin, "u2", "u3", ZERO, "SILVER"))
    \/ \E who \in Callers : Tx(updateUserTier(who, "u2", "GOLD"))
    \/ \E who \in Callers : Tx(deactivateReferral(who, "u2"))
    \/ \E in \in RateInputs : Tx(updateReferralRates(in[1], "GOLD", in[2], in[3]))
    \/ \E who \in Callers, a \in {ZERO, "u3"} : Tx(setEvaluatorTreasury(who, a))
    \/ \E who \in Callers, a \in {ZERO, "u3"} : Tx(setPlatformTreasury(who, a))
    \/ \E who \in Callers : Tx(tokenPause(who, EngineToken))
    \/ \E who \in Callers : Tx(tokenUnpause(who, EngineToken))
    \/ Tx(Tick)
    \/ Resume

SpecAdmin == InitAdmin /\ [][NextAdmin]_vars


\* ------------------------------------------------- callbacks from a transfer
\* A token whose transfer hands control to the recipient or the sender (a
\* hook) lets that party call the contracts again while the guarded call is
\* still running.  The guarded call is suspended in one of its transfers with
\* its guard set; calls made meanwhile are the nested calls; then the
\* suspended call either runs to its end or, if the hook lets the failure of
\* a nested call through, reverts with everything done since it began.

\* variant: the modifier lets a nested call in
NonReentrantOff(status) ==
    TRUE

\* nonReentrant: the call is refused while _status is ENTERED
NonReentrant(status) ==
    status # "ENTERED"

\* what a revert of the suspended call restores
Snapshot ==
    [contents |-> contents, userContents |-> userContents,
     balances |-> balances, allowances |-> allowances, nonces |-> nonces,
     payouts |-> payouts, totalPayouts |-> totalPayouts,
     userReferrals |-> userReferrals,
     totalReferralEarnings |-> totalReferralEarnings, last |-> last]

\* a call refused by nonReentrant: ReentrancyGuardReentrantCall
Rejected(op, who, id, amt, res) ==
    /\ last' = [Call(op, FALSE, who, id, amt) EXCEPT !.res = res]
    /\ UNCHANGED <<chainVars, now>>

\* purchaseContent / purchaseContentWithPermit has passed its modifiers and
\* its availability check and is inside a transfer: `at` is the Registry's
\* own transferFrom or transfer, or one of the Engine's payout transfers
PurchaseBegin(op, buyer, contentId, args, at) ==
    LET price == contents[contentId].price
        alw == IF op = "purchaseContentWithPermit"
               THEN [allowances EXCEPT ![roastToken][buyer] = price]
               ELSE allowances
    IN  /\ last.prev = <<>>
        /\ pending = <<>>
        /\ NonReentrant(regStatus)
        /\ PurchaseRequire(contentId)
        /\ op = "purchaseContentWithPermit" => PermitOk(args[1], args[2])
        /\ at = "engineTransfer"
              => /\ rewardDistribution = Engine
                 /\ NonReentrant(engStatus)
                 /\ totalPayouts < MaxPayouts
                 /\ ~PurchaseBody(buyer, contentId, alw).aborted
        /\ regStatus' = "ENTERED"
        /\ engStatus' = IF at = "engineTransfer" THEN "ENTERED" ELSE engStatus
        /\ pending' = [op |-> op, who |-> buyer, id |-> contentId, args |-> args,
                       at |-> at, start |-> Snapshot]
        /\ UNCHANGED <<chainVars, now, steps, last>>

\* processContentPurchase, called directly, is inside one of its transfers
ProcessBegin(caller, contentId, buyer, miner, amount) ==
    /\ last.prev = <<>>
    /\ pending = <<>>
    /\ NonReentrant(engStatus)
    /\ ProcessCallerAdmitted(caller)
    /\ ProcessRequire(buyer, miner, amount)
    /\ totalPayouts < MaxPayouts
    /\ engStatus' = "ENTERED"
    /\ pending' = [op |-> "processContentPurchase", who |-> caller,
                   id |-> contentId, args |-> <<buyer, miner, amount>>,
                   at |-> "engineTransfer", start |-> Snapshot]
    /\ UNCHANGED <<chainVars, regStatus, now, steps, last>>

\* a call made from inside the transfer; `call` is the entry point as it runs
\* when its guards let it in
Nested(admitted, call, refusal) ==
    /\ pending # <<>>
    /\ last.prev = <<>>
    /\ IF admitted THEN call ELSE refusal
    /\ UNCHANGED guardVars
    /\ steps' = IF chainVars' = chainVars THEN steps ELSE steps + 1
    /\ steps' <= MaxLongSteps

\* a nested purchase passes the Registry's guard and, when the Registry
\* calls the Engine, the Engine's
NestedPurchaseContent(buyer, contentId) ==
    Nested(NonReentrant(regStatus)
              /\ (rewardDistribution = Engine => NonReentrant(engStatus)),
           purchaseContent(buyer, contentId),
           Rejected("purchaseContent", buyer, contentId,
                    contents[contentId].price, <<>>))

NestedPurchaseContentWithPermit(buyer, contentId, deadline, sigValid) ==
    Nested(NonReentrant(regStatus)
              /\ (rewardDistribution = Engine => NonReentrant(engStatus)),
           purchaseContentWithPermit(buyer, contentId, deadline, sigValid),
           Rejected("purchaseContentWithPermit", buyer, contentId,
                    contents[contentId].price, <<>>))

NestedProcessContentPurchase(caller, contentId, buyer, miner, amount) ==
    Nested(NonReentrant(engStatus),
           processContentPurchase(caller, contentId, buyer, miner, amount),
           Rejected("processContentPurchase", caller, contentId, amount,
                    <<buyer, miner>>))

\* the transfer returns and the suspended call runs to its end; the guards
\* are released on the way out
Finish ==
    /\ pending # <<>>
    /\ last.prev = <<>>
    /\ \/ /\ pending.op = "purchaseContent"
          /\ purchaseContent(pending.who, pending.id)
       \/ /\ pending.op = "purchaseContentWithPermit"
          /\ purchaseContentWithPermit(pending.who, pending.id,
                                       pending.args[1], pending.args[2])
       \/ /\ pending.op = "processContentPurchase"
          /\ processContentPurchase(pending.who, pending.id, pending.args[1],
                                    pending.args[2], pending.args[3])
    /\ regStatus' = "NOT_ENTERED"
    /\ engStatus' = "NOT_ENTERED"
    /\ pending' = <<>>
    /\ steps' = IF chainVars' = chainVars THEN steps ELSE steps + 1

\* the failure of a nested call travels up through the transfer: the
\* suspended call reverts, and with it whatever was done since it began
Abort ==
    /\ pending # <<>>
    /\ last.prev = <<>>
    /\ contents' = pending.start.contents
    /\ userContents' = pending.start.userContents
    /\ balances' = pending.start.balances
    /\ allowances' = pending.start.allowances
    /\ nonces' = pending.start.nonces
    /\ payouts' = pending.start.payouts
    /\ totalPayouts' = pending.start.totalPayouts
    /\ userReferrals' = pending.start.userReferrals
    /\ totalReferralEarnings' = pending.start.totalReferralEarnings
    /\ last' = [Call(pending.op, FALSE, pending.who, pending.id, 0)
                  EXCEPT !.prev = pending.start.last]
    /\ regStatus' = "NOT_ENTERED"
    /\ engStatus' = "NOT_ENTERED"
    /\ pending' = <<>>
    /\ UNCHANGED <<contentExistsMap, totalContent, rewardDistribution,
                   roastToken, regPaused, directReferrerRates,
                   grandReferrerRates, evaluatorTreasury, platformTreasury,
                   engPaused, tokPaused, now, steps>>

\* -------------------------------------------- every owner-only entry point
\* one content, one buyer, the Engine funded and not configured in the
\* Registry; every onlyOwner function of both contracts is called by the
\* administrator and by the holder u2
InitOwner == InitWith(1000, ZERO, "TOAST")

NextOwner ==
    \/ Tx(registerContent("u2", 1, "u1", "Qm1", "text"))
    \/ \E who \in Callers : Tx(approveContent(who, 1, 1000))
    \/ \E who \in Callers : Tx(updatePrice(who, 1, 39))
    \/ Tx(tokenApprove("u2", roastToken, 1000))
    \/ Tx(purchaseContent("u2", 1))
    \/ Tx(sendETH("u2", 5))
    \/ \E who \in Callers : Tx(setRewardDistribution(who, Engine))
    \/ \E who \in Callers : Tx(setRoastToken(who, "ALT"))
    \/ \E who \in Callers : Tx(registryPause(who))
    \/ \E who \in Callers : Tx(registryUnpause(who))
    \/ \E who \in Callers : Tx(emergencyWithdrawETH(who))
    \/ \E who \in Callers : Tx(registryEmergencyWithdrawToken(who, "TOAST", 1000))
    \/ \E who \in Callers : Tx(registerReferral(who, "u2", "u3", ZERO, "SILVER"))
    \/ \E who \in Callers : Tx(updateUserTier(who, "u2", "GOLD"))
    \/ \E who \in Callers : Tx(updateReferralRates(who, "SILVER", 1000, 500))
    \/ \E who \in Callers : Tx(deactivateReferral(who, "u2"))
    \/ \E who \in Callers : Tx(setEvaluatorTreasury(who, "u3"))
    \/ \E who \in Callers : Tx(setPlatformTreasury(who, "u3"))
    \/ \E who \in Callers : Tx(enginePause(who))
    \/ \E who \in Callers : Tx(engineUnpause(who))
    \/ \E who \in Callers : Tx(engineEmergencyWithdrawToken(who, "TOAST", 1000))
    \/ Resume

SpecOwner == InitOwner /\ [][NextOwner]_vars

\* ------------------------------------------------------- the full workflow
\* FullWorkflow.test.ts: the Registry has no Engine configured, the Engine
\* holds nothing, and the administrator calls processContentPurchase after
\* the buyer's purchase; the run is longer than the others, hence LongTx below
InitWorkflow == InitWith(0, ZERO, "TOAST")

\* ------------------------------------------- pausing and resuming
\* a longer run of fewer calls: one content, one buyer, the Engine called on
\* its own, and the pause switches of the Registry and of the Engine
LongTx(call) ==
    /\ last.prev = <<>>
    /\ pending = <<>>
    /\ call
    /\ UNCHANGED guardVars
    /\ steps' = IF chainVars' = chainVars THEN steps ELSE steps + 1
    /\ steps' <= MaxLongSteps

InitPause == InitWith(2000, ZERO, "TOAST")

NextPause ==
    \/ LongTx(registerContent("u2", 1, "u1", "Qm1", "text"))
    \/ LongTx(approveContent(Admin, 1, 1000))
    \/ LongTx(tokenApprove("u2", roastToken, 1000))
    \/ LongTx(purchaseContent("u2", 1))
    \/ \E a \in Amounts : LongTx(processContentPurchase("u3", 1, "u2", "u1", a))
    \/ \E who \in Callers : LongTx(registryPause(who))
    \/ \E who \in Callers : LongTx(registryUnpause(who))
    \/ \E who \in Callers : LongTx(enginePause(who))
    \/ \E who \in Callers : LongTx(engineUnpause(who))
    \/ Resume

SpecPause == InitPause /\ [][NextPause]_vars

\* steps 1 to 6 of the workflow test, in any order and by either caller
NextWorkflow ==
    \/ \E t \in {"SILVER", "PLATINUM"} :
          LongTx(registerReferral(Admin, "u2", "u3", "u4", t))
    \/ LongTx(registerContent("u1", 1, "u1", "Qm1", "text"))
    \/ \E who \in Callers : LongTx(approveContent(who, 1, 1000))
    \/ LongTx(tokenApprove("u2", roastToken, 1000))
    \/ LongTx(purchaseContent("u2", 1))
    \/ \E who \in Callers : LongTx(processContentPurchase(who, 1, "u2", "u1", 1000))
    \/ \E who \in Buyers : LongTx(markContentPersonalized(who, 1, "QmP"))
    \/ Resume

SpecWorkflow == InitWorkflow /\ [][NextWorkflow]_vars

\* ------------------------------------------------- the life of one content
\* one content from registration to personalization, with time passing
\* between the calls
InitLifecycle == InitWith(2000, ZERO, "TOAST")

NextLifecycle ==
    \/ \E in \in RegisterInputs : LongTx(registerContent("u2", 1, in[1], in[2], in[3]))
    \/ \E in \in PriceInputs : LongTx(approveContent(in[1], 1, in[2]))
    \/ \E in \in PriceInputs : LongTx(updatePrice(in[1], 1, in[2]))
    \/ \E b \in Buyers : LongTx(tokenApprove(b, roastToken, 1000))
    \/ \E b \in Buyers : LongTx(purchaseContent(b, 1))
    \/ \E in \in PermitInputs : LongTx(purchaseContentWithPermit("u2", 1, in[1], in[2]))
    \/ \E who \in Buyers, h \in {"", "QmP"} : LongTx(markContentPersonalized(who, 1, h))
    \/ LongTx(Tick)
    \/ Resume

SpecLifecycle == InitLifecycle /\ [][NextLifecycle]_vars

\* ------------------------------------------- referral accumulators
\* one chain u2 -> u3 -> u4 bought through repeatedly, under the construction
\* rates and under rates the owner sets
ChainRates == {<<100, 500>>, <<0, 500>>}
StatsFunds == {980, 2000}

InitStats == \E f \in StatsFunds : InitWith(f, ZERO, "TOAST")

NextStats ==
    \/ \E g \in {"u4", ZERO} : LongTx(registerReferral(Admin, "u2", "u3", g, "SILVER"))
    \/ LongTx(registerReferral(Admin, "u4", "u3", ZERO, "SILVER"))
    \/ \E r \in ChainRates : LongTx(updateReferralRates(Admin, "SILVER", r[1], r[2]))
    \/ LongTx(deactivateReferral(Admin, "u4"))
    \/ \E a \in Amounts : LongTx(processContentPurchase("u3", 1, "u2", "u1", a))
    \/ Resume

SpecStats == InitStats /\ [][NextStats]_vars

\* ------------------------------------------- the Engine called by anyone
\* processContentPurchase called by the owner, the Registry and a user, for
\* any buyer and miner, on an Engine no Registry points to
OpenCallers == {Admin, Registry, "u3"}
OpenParties == {<<"u2", "u1">>, <<"u3", "u3">>, <<ZERO, "u1">>}
OpenAmounts == {0, 1000}

NextOpen ==
    \/ \E who \in OpenCallers, p \in OpenParties, a \in OpenAmounts :
          Tx(processContentPurchase(who, 1, p[1], p[2], a))
    \/ Tx(registerReferral(Admin, "u2", "u3", "u4", "SILVER"))
    \/ Tx(registerReferral(Admin, "u4", "u3", ZERO, "SILVER"))
    \/ \E who \in Callers : Tx(enginePause(who))
    \/ \E who \in Callers : Tx(engineUnpause(who))
    \/ Resume

SpecOpen == InitStats /\ [][NextOpen]_vars

\* ------------------------------------------- purchases through a wired Engine
\* one content sold through a Registry that has the Engine configured, the
\* Engine being paused and resumed in between
InitWired == InitWith(0, Engine, "TOAST")

NextWired ==
    \/ LongTx(registerContent("u2", 1, "u1", "Qm1", "text"))
    \/ \E in \in PriceInputs : LongTx(approveContent(in[1], 1, in[2]))
    \/ LongTx(tokenApprove("u2", roastToken, 1000))
    \/ \E b \in Buyers : LongTx(purchaseContent(b, 1))
    \/ \E in \in PermitInputs : LongTx(purchaseContentWithPermit("u2", 1, in[1], in[2]))
    \/ \E who \in Callers : LongTx(enginePause(who))
    \/ \E who \in Callers : LongTx(engineUnpause(who))
    \/ \E in \in EngineInputs : LongTx(setRewardDistribution(in[1], in[2]))
    \/ Resume

SpecWired == InitWired /\ [][NextWired]_vars

\* ------------------------------------------- referral graphs with cycles
\* u2 and u3 registered with each other and with u4 in any role, and
\* purchases by either
CycleUsers == {"u2", "u3"}
CycleDirect == {"u2", "u3", ZERO}
CycleGrand == {"u2", "u4", ZERO}

NextCycle ==
    \/ \E who \in Callers, u \in CycleUsers, dr \in CycleDirect, gr \in CycleGrand :
          Tx(registerReferral(who, u, dr, gr, "SILVER"))
    \/ \E u \in CycleUsers : Tx(deactivateReferral(Admin, u))
    \/ \E b \in CycleUsers : Tx(processContentPurchase("u1", 1, b, "u1", 1000))
    \/ Resume

SpecCycle == InitStats /\ [][NextCycle]_vars

\* one content at 39, two holders who approved it, the Registry with and
\* without the Engine; every guarded call may be suspended in a transfer
InitReentry == \E e \in {ZERO, Engine} : InitWith(2000, e, "TOAST")

SuspensionPoints == {"registryTransfer", "engineTransfer"}

NextReentry ==
    \/ LongTx(registerContent("u1", 1, "u1", "Qm1", "text"))
    \/ LongTx(approveContent(Admin, 1, 39))
    \/ \E b \in Buyers : LongTx(tokenApprove(b, roastToken, 39))
    \/ \E b \in Buyers, at \in SuspensionPoints :
          PurchaseBegin("purchaseContent", b, 1, <<>>, at)
    \/ \E at \in SuspensionPoints :
          PurchaseBegin("purchaseContentWithPermit", "u2", 1, <<MaxTime, TRUE>>, at)
    \/ ProcessBegin("u3", 1, "u2", "u1", 39)
    \/ \E b \in Buyers : NestedPurchaseContent(b, 1)
    \/ NestedPurchaseContentWithPermit("u1", 1, MaxTime, TRUE)
    \/ NestedProcessContentPurchase("u3", 1, "u2", "u1", 39)
    \/ Finish
    \/ Abort
    \/ Resume

SpecReentry == InitReentry /\ [][NextReentry]_vars

\* ------------------------------------------------------------- properties
\* a step that is the call `op` made on a committed state; last'.ok tells
\* whether it went through or reverted
CallOf(op) == last.prev = <<>> /\ last'.op = op

PurchaseCall == CallOf("purchaseContent") \/ CallOf("purchaseContentWithPermit")

Count(seq, x) == Cardinality({i \in 1..Len(seq) : seq[i] = x})

\* q is the integer quotient of amount * rate by 10000
IsShare(q, amount, rate) ==
    /\ q * 10000 <= amount * rate
    /\ amount * rate < (q + 1) * 10000

RECURSIVE SumTo(_, _)
SumTo(legs, a) ==
    IF legs = <<>> THEN 0
    ELSE (IF Head(legs).to = a THEN Head(legs).amt ELSE 0) + SumTo(Tail(legs), a)

RECURSIVE SumAll(_)
SumAll(legs) ==
    IF legs = <<>> THEN 0 ELSE Head(legs).amt + SumAll(Tail(legs))

\* what the Engine holds of its token when the Registry calls it for `price`
EngineHoldings(price) ==
    balances[EngineToken][Engine] + (IF roastToken = EngineToken THEN price ELSE 0)

BaseShares(amount) ==
    (amount * 5000) \div 10000 + (amount * 2000) \div 10000
        + (amount * 3000) \div 10000

\* C1: a purchaseContent whose buyer lacks the balance or the allowance for
\* the price reverts: the content records, the content indexes, every token
\* balance and allowance and the Engine's payout ledger are as before the call.
C1_FailedPullAborts ==
    [][ LET b == last'.who
            price == contents[last'.id].price
        IN  ( /\ CallOf("purchaseContent")
              /\ ~regPaused
              /\ contentExistsMap[last'.id]
              /\ contents[last'.id].isAvailable
              /\ \/ balances[roastToken][b] < price
                 \/ allowances[roastToken][b] < price )
            => /\ ~last'.ok
               /\ contents' = contents
               /\ userContents' = userContents
               /\ balances' = balances
               /\ allowances' = allowances
               /\ payouts' = payouts
               /\ totalPayouts' = totalPayouts ]_vars

\* a purchase of a content on sale just reverted for want of allowance, the
\* buyer holding the price, with an Engine configured
C1_Witness ==
    /\ last.op = "purchaseContent"
    /\ ~last.ok
    /\ ~regPaused
    /\ contents[last.id].isAvailable
    /\ rewardDistribution = Engine
    /\ balances[roastToken][last.who] >= contents[last.id].price
    /\ allowances[roastToken][last.who] < contents[last.id].price

\* C2: a purchase through a Registry with the Engine configured, in which a
\* payout leg fails (the Engine holds less than the shares it has to pay), goes
\* through: the buyer is currentOwner, isAvailable is false, soldAt is the
\* time of the call, one record is appended for the purchase with
\* completed = false, and the call does not revert.
C2_LegFailureKeepsPurchase ==
    [][ LET b == last'.who
            id == last'.id
            price == contents[id].price
            rec == payouts'[totalPayouts]
            short == EngineHoldings(price) < BaseShares(price)
            accepted ==
                /\ CallOf("purchaseContent")
                /\ ~regPaused
                /\ contentExistsMap[id]
                /\ contents[id].isAvailable
                /\ price > 0
                /\ balances[roastToken][b] >= price
                /\ allowances[roastToken][b] >= price
                /\ ~tokPaused[roastToken]
                /\ rewardDistribution = Engine
                /\ ~engPaused
                /\ short
            failed == PurchaseCall /\ last'.ok /\ last'.failedLeg # "none"
        IN  (accepted \/ failed)
            => /\ last'.ok
               /\ last'.failedLeg # "none"
               /\ last'.ret = "false"
               /\ contents'[id].currentOwner = b
               /\ ~contents'[id].isAvailable
               /\ contents'[id].soldAt = now
               /\ contents'[id].soldAt > 0
               /\ totalPayouts' = totalPayouts + 1
               /\ rec.contentId = id
               /\ rec.buyer = b
               /\ rec.totalAmount = price
               /\ ~rec.completed ]_vars

\* a purchase went through although the evaluator leg failed after the miner
\* leg was paid
C2_Witness ==
    /\ last.op = "purchaseContent"
    /\ last.ok
    /\ rewardDistribution = Engine
    /\ last.failedLeg = "evaluator"
    /\ Len(last.legs) = 1
    /\ contents[last.id].currentOwner = last.who
    /\ ~payouts[totalPayouts - 1].completed

\* C3: an accepted processContentPurchase pays its legs in the order miner,
\* evaluator treasury, residual to the platform treasury, direct referrer,
\* grand referrer, leaving out the zero-amount legs other than the miner's.
\* The legs paid are a prefix of that list; when the next leg cannot be paid
\* the call returns false, the legs before it stay paid, none after it is
\* paid, the record keeps completed = false and no referral accumulator
\* changes.
C3_LegsInOrderStopAtFailure ==
    [][ LET buyer == last'.res[1]
            miner == last'.res[2]
            rec == payouts'[totalPayouts]
            T == EngineToken
            all == << [name |-> "miner", to |-> miner, amt |-> rec.minerAmount],
                      [name |-> "evaluator", to |-> evaluatorTreasury,
                       amt |-> rec.evaluatorAmount],
                      [name |-> "residual", to |-> platformTreasury,
                       amt |-> rec.residualPlatformAmount],
                      [name |-> "direct", to |-> userReferrals[buyer].directReferrer,
                       amt |-> rec.directReferrerAmount],
                      [name |-> "grand", to |-> userReferrals[buyer].grandReferrer,
                       amt |-> rec.grandReferrerAmount] >>
            Due(leg) == leg.name = "miner" \/ leg.amt > 0
            due == SelectSeq(all, Due)
            paid == last'.legs
            k == Len(paid)
        IN  (CallOf("processContentPurchase") /\ last'.ok)
            => /\ k <= Len(due)
               /\ \A i \in 1..k : paid[i] = due[i]
               /\ \A a \in Addrs \ {Engine} :
                     balances'[T][a] = balances[T][a] + SumTo(paid, a)
               /\ balances'[T][Engine] = balances[T][Engine] - SumAll(paid)
               /\ IF k = Len(due)
                  THEN /\ last'.failedLeg = "none"
                       /\ last'.ret = "true"
                       /\ rec.completed
                  ELSE /\ last'.failedLeg = due[k + 1].name
                       /\ balances'[T][Engine] < due[k + 1].amt
                       /\ last'.ret = "false"
                       /\ ~rec.completed
                       /\ userReferrals' = userReferrals
                       /\ totalReferralEarnings' = totalReferralEarnings ]_vars

\* the grand referrer's leg failed after the four legs before it were paid
C3_Witness ==
    /\ last.op = "processContentPurchase"
    /\ last.ok
    /\ last.failedLeg = "grand"
    /\ Len(last.legs) = 4
    /\ last.ret = "false"
    /\ ~payouts[totalPayouts - 1].completed

\* C4: in every accepted processContentPurchase of an amount A whose buyer has
\* an active SILVER record with an active grand referrer, the five recorded
\* amounts (miner, evaluator, residual platform, direct, grand) add up to at
\* most A and fall short of A by less than 5.
C4_SilverSumWithinFive ==
    [][ LET buyer == last'.res[1]
            r == userReferrals[buyer]
            rec == payouts'[totalPayouts]
            sum == rec.minerAmount + rec.evaluatorAmount
                     + rec.residualPlatformAmount + rec.directReferrerAmount
                     + rec.grandReferrerAmount
        IN  ( /\ CallOf("processContentPurchase")
              /\ last'.ok
              /\ r.isActive
              /\ r.tier = "SILVER"
              /\ r.grandReferrer # ZERO
              /\ userReferrals[r.grandReferrer].isActive )
            => /\ rec.totalAmount = last'.amt
               /\ sum <= last'.amt
               /\ last'.amt - sum < 5 ]_vars

\* a SILVER buyer with an active grand referrer bought for 39 and the five
\* amounts recorded add up to 37
C4_Witness ==
    /\ last.op = "processContentPurchase"
    /\ last.ok
    /\ last.amt = 39
    /\ userReferrals[last.res[1]].isActive
    /\ userReferrals[last.res[1]].tier = "SILVER"
    /\ userReferrals[last.res[1]].grandReferrer # ZERO
    /\ userReferrals[userReferrals[last.res[1]].grandReferrer].isActive
    /\ LET rec == payouts[totalPayouts - 1]
       IN  rec.minerAmount + rec.evaluatorAmount + rec.residualPlatformAmount
             + rec.directReferrerAmount + rec.grandReferrerAmount = 37

\* the rates _initializeReferralRates sets
ConstructionRates ==
    /\ directReferrerRates["SILVER"] = 500 /\ grandReferrerRates["SILVER"] = 250
    /\ directReferrerRates["GOLD"] = 750 /\ grandReferrerRates["GOLD"] = 375
    /\ \A t \in {"PLATINUM", "EMERALD", "DIAMOND", "UNICORN"} :
          directReferrerRates[t] = 1000 /\ grandReferrerRates[t] = 500

\* C5: for an active buyer whose grand referrer is an active record,
\* calculateReferralPayout(buyer, A) returns floor(A * directRate[tier] / 10000),
\* floor(A * grandRate[tier] / 10000) and their sum; the rates are SILVER
\* 500/250, GOLD 750/375 and 1000/500 for the other tiers until
\* updateReferralRates changes them; processContentPurchase records the same
\* two amounts and, when all its legs are paid, transfers them to the direct
\* and the grand referrer.
C5_ReferralAmounts ==
    [][ LET viewed == CallOf("calculateReferralPayout")
            processed == CallOf("processContentPurchase") /\ last'.ok
            buyer == last'.res[1]
            A == last'.amt
            r == userReferrals[buyer]
            chain == /\ r.isActive
                     /\ r.grandReferrer # ZERO
                     /\ userReferrals[r.grandReferrer].isActive
            rec == payouts'[totalPayouts]
            T == EngineToken
        IN  /\ last.op = "constructor" => ConstructionRates
            /\ (ConstructionRates /\ ~(CallOf("updateReferralRates") /\ last'.ok))
                  => ConstructionRates'
            /\ (viewed /\ chain)
                  => /\ IsShare(last'.res[2], A, directReferrerRates[r.tier])
                     /\ IsShare(last'.res[3], A, grandReferrerRates[r.tier])
                     /\ last'.res[4] = last'.res[2] + last'.res[3]
            /\ (processed /\ chain)
                  => /\ IsShare(rec.directReferrerAmount, A, directReferrerRates[r.tier])
                     /\ IsShare(rec.grandReferrerAmount, A, grandReferrerRates[r.tier])
                     /\ last'.ret = "true"
                           => /\ balances'[T][r.directReferrer]
                                    = balances[T][r.directReferrer]
                                        + rec.directReferrerAmount
                              /\ balances'[T][r.grandReferrer]
                                    = balances[T][r.grandReferrer]
                                        + rec.grandReferrerAmount ]_vars

\* the view was just asked about a GOLD buyer with an active grand referrer
\* and 1000, and answered 75, 37 and 112
C5_Witness ==
    /\ last.op = "calculateReferralPayout"
    /\ last.amt = 1000
    /\ userReferrals[last.res[1]].isActive
    /\ userReferrals[last.res[1]].tier = "GOLD"
    /\ userReferrals[last.res[1]].grandReferrer # ZERO
    /\ userReferrals[userReferrals[last.res[1]].grandReferrer].isActive
    /\ ConstructionRates
    /\ last.res[2] = 75 /\ last.res[3] = 37 /\ last.res[4] = 112

\* the purchase of a content by a buyer without an active referral record,
\* through a Registry with the Engine configured, went through
C6_Purchase ==
    /\ PurchaseCall
    /\ last'.ok
    /\ rewardDistribution = Engine
    /\ ~userReferrals[last'.who].isActive

C6_Outcome ==
    LET id == last'.id
        A == contents[id].price
        C == contents[id].creator
        T == EngineToken
    IN  /\ balances'[T][C] = balances[T][C] + (A * 5000) \div 10000
        /\ balances'[T][evaluatorTreasury]
              = balances[T][evaluatorTreasury] + (A * 2000) \div 10000
        /\ balances'[T][platformTreasury]
              = balances[T][platformTreasury] + (A * 3000) \div 10000
        /\ contents'[id].currentOwner = last'.who
        /\ ~contents'[id].isAvailable
        /\ contents'[id].soldAt > 0

\* the creator, the buyer, the two treasuries, the Registry and the Engine
\* are six different addresses
C6_Distinct ==
    LET parties == <<contents[last'.id].creator, last'.who, evaluatorTreasury,
                     platformTreasury, Registry, Engine>>
    IN  \A i, j \in 1..6 : i # j => parties[i] # parties[j]

C7_LedgerAppendOnly ==
    [][ LET buyer == last'.res[1]
            miner == last'.res[2]
            rec == payouts'[totalPayouts]
        IN  /\ totalPayouts' >= totalPayouts
            /\ \A i \in 0..(totalPayouts - 1) : payouts'[i] = payouts[i]
            /\ ( /\ CallOf("processContentPurchase")
                 /\ ~engPaused
                 /\ buyer # ZERO
                 /\ miner # ZERO
                 /\ last'.amt > 0 )
               => /\ last'.ok
                  /\ totalPayouts' = totalPayouts + 1
                  /\ rec.contentId = last'.id
                  /\ rec.buyer = buyer
                  /\ rec.miner = miner
                  /\ rec.totalAmount = last'.amt
                  /\ rec.completed = (last'.ret = "true")
            /\ (CallOf("processContentPurchase") /\ ~last'.ok)
                  => totalPayouts' = totalPayouts /\ payouts' = payouts ]_vars

\* an Engine holding no funds appended a second record after a first one, no
\* leg of either paid
C7_Witness ==
    /\ last.op = "processContentPurchase"
    /\ last.ok
    /\ balances[EngineToken][Engine] = 0
    /\ totalPayouts = 2
    /\ ~payouts[0].completed
    /\ ~payouts[1].completed
    /\ payouts[1].totalAmount = last.amt
    /\ last.legs = <<>>
    /\ last.failedLeg = "miner"

\* C8: after every purchaseContent or purchaseContentWithPermit of an id by a
\* buyer B that goes through, currentOwner is B, isAvailable is false and the
\* id occurs in B's content index exactly once more than before the call.
C8_PurchaseTransfersOwnership ==
    [][ LET b == last'.who
            id == last'.id
        IN  (PurchaseCall /\ last'.ok)
            => /\ contents'[id].currentOwner = b
               /\ ~contents'[id].isAvailable
               /\ Count(userContents'[b], id) = Count(userContents[b], id) + 1
               /\ \A a \in Addrs \ {b} : userContents'[a] = userContents[a] ]_vars

\* a creator bought the own content back: the id is twice in the index
C8_Witness ==
    /\ last.op \in {"purchaseContent", "purchaseContentWithPermit"}
    /\ last.ok
    /\ contents[last.id].currentOwner = last.who
    /\ ~contents[last.id].isAvailable
    /\ Count(userContents[last.who], last.id) = 2

\* C9: registerContent with an id that is already registered reverts,
\* whatever the creator, hash and type given, and leaves the content records,
\* the existence map and totalContent unchanged.
C9_DuplicateIdRejected ==
    [][ (CallOf("registerContent") /\ contentExistsMap[last'.id])
        => /\ ~last'.ok
           /\ contents' = contents
           /\ contentExistsMap' = contentExistsMap
           /\ totalContent' = totalContent ]_vars

\* a registration with an acceptable creator, hash and type just reverted on
\* an id that had been registered and approved
C9_Witness ==
    /\ last.op = "registerContent"
    /\ ~last.ok
    /\ last.res = <<"u1", "Qm1", "text">>
    /\ contentExistsMap[last.id]
    /\ contents[last.id].isApproved

\* C10: approveContent on a content whose isApproved is true reverts, before
\* and after the content is sold, and leaves the content records (price,
\* isAvailable, currentOwner among them) and the content indexes unchanged.
C10_ReapprovalRejected ==
    [][ ( /\ CallOf("approveContent")
          /\ contentExistsMap[last'.id]
          /\ contents[last'.id].isApproved )
        => /\ ~last'.ok
           /\ contents' = contents
           /\ userContents' = userContents ]_vars

\* the owner's approval at a positive price just reverted on a content that
\* had been approved and sold
C10_Witness ==
    /\ last.op = "approveContent"
    /\ ~last.ok
    /\ last.who = Admin
    /\ last.amt > 0
    /\ contents[last.id].isApproved
    /\ contents[last.id].soldAt > 0
    /\ ~contents[last.id].isAvailable

\* C11: markContentPersonalized goes through only for the caller that is the
\* content's currentOwner when it is called; any other caller, the creator
\* after a sale among them, is rejected with the content records unchanged;
\* the current owner of a content not yet personalized, giving a non-empty
\* hash, is accepted and the content becomes personalized with that hash.
C11_OnlyOwnerPersonalizes ==
    [][ LET id == last'.id
            who == last'.who
            hash == last'.res[1]
            owner == contents[id].currentOwner
        IN  CallOf("markContentPersonalized")
            => /\ last'.ok => (contentExistsMap[id] /\ owner = who)
               /\ ~last'.ok => contents' = contents
               /\ (contentExistsMap[id] /\ owner # who) => ~last'.ok
               /\ ( /\ contentExistsMap[id]
                    /\ owner = who
                    /\ ~contents[id].isPersonalized
                    /\ hash # "" )
                  => /\ last'.ok
                     /\ contents'[id] =
                           [contents[id] EXCEPT !.personalizedHash = hash,
                                                !.isPersonalized = TRUE,
                                                !.personalizedAt = now]
                     /\ \A j \in ContentIds \ {id} : contents'[j] = contents[j] ]_vars

\* the buyer of a sold content just personalized it
C11_Witness ==
    /\ last.op = "markContentPersonalized"
    /\ last.ok
    /\ contents[last.id].soldAt > 0
    /\ contents[last.id].currentOwner = last.who
    /\ contents[last.id].creator # last.who
    /\ contents[last.id].isPersonalized
    /\ contents[last.id].personalizedHash = "QmP"

\* C12: while the Registry is paused every purchaseContent reverts and
\* changes nothing; pausing and unpausing change nothing but the pause flag,
\* and on the unpaused Registry a purchaseContent of an available content by a
\* buyer holding and having approved the price goes through.  Likewise every
\* processContentPurchase on the paused Engine is rejected and appends no
\* record, the Engine's pause and unpause change only its flag, and on the
\* unpaused Engine a call with non-zero buyer and miner and a positive amount
\* is accepted and appends one record.
C12_PauseGates ==
    [][ LET id == last'.id
            b == last'.who
            price == contents[id].price
        IN  /\ (CallOf("purchaseContent") /\ regPaused)
                  => (~last'.ok /\ chainVars' = chainVars)
            /\ ((CallOf("registryPause") \/ CallOf("registryUnpause")) /\ last'.ok)
                  => /\ regPaused' = ~regPaused
                     /\ regPaused' = (last'.op = "registryPause")
                     /\ UNCHANGED <<contents, contentExistsMap, userContents,
                                    totalContent, rewardDistribution, roastToken,
                                    engVars, tokVars>>
            /\ ( /\ CallOf("purchaseContent")
                 /\ ~regPaused
                 /\ contentExistsMap[id]
                 /\ contents[id].isAvailable
                 /\ rewardDistribution = ZERO
                 /\ ~tokPaused[roastToken]
                 /\ balances[roastToken][b] >= price
                 /\ allowances[roastToken][b] >= price )
               => (last'.ok /\ contents'[id].currentOwner = b)
            /\ (CallOf("processContentPurchase") /\ engPaused)
                  => (~last'.ok /\ chainVars' = chainVars)
            /\ ((CallOf("enginePause") \/ CallOf("engineUnpause")) /\ last'.ok)
                  => /\ engPaused' = ~engPaused
                     /\ engPaused' = (last'.op = "enginePause")
                     /\ UNCHANGED <<regVars, tokVars, userReferrals,
                                    totalReferralEarnings, payouts, totalPayouts,
                                    directReferrerRates, grandReferrerRates,
                                    evaluatorTreasury, platformTreasury>>
            /\ ( /\ CallOf("processContentPurchase")
                 /\ ~engPaused
                 /\ last'.res[1] # ZERO
                 /\ last'.res[2] # ZERO
                 /\ last'.amt > 0 )
               => (last'.ok /\ totalPayouts' = totalPayouts + 1) ]_vars

\* a purchase that nothing but the pause stands against was just rejected
C12_Witness ==
    /\ last.op = "purchaseContent"
    /\ ~last.ok
    /\ regPaused
    /\ contents[last.id].isAvailable
    /\ balances[roastToken][last.who] >= contents[last.id].price
    /\ allowances[roastToken][last.who] >= contents[last.id].price

\* an active referral record names a direct referrer, and the user, the
\* direct referrer and the grand referrer are pairwise different
ActiveReferralsWellFormed ==
    \A u \in Addrs :
        userReferrals[u].isActive
            => /\ userReferrals[u].directReferrer # ZERO
               /\ userReferrals[u].directReferrer # u
               /\ userReferrals[u].grandReferrer # u
               /\ userReferrals[u].directReferrer # userReferrals[u].grandReferrer

\* C13: registerReferral(X, X, Y, tier), registerReferral(X, Y, X, tier) and
\* registerReferral(X, Y, Y, tier) are rejected and change nothing, and in
\* every reachable state every active referral record has a non-null direct
\* referrer different from the user, a grand referrer different from the
\* user, and a direct referrer different from the grand referrer.
C13_ReferralShapeRejected ==
    [][ /\ ActiveReferralsWellFormed /\ ActiveReferralsWellFormed'
        /\ (/\ CallOf("registerReferral")
            /\ \/ last'.res[1] = last'.res[2]
               \/ last'.res[1] = last'.res[3]
               \/ last'.res[2] = last'.res[3])
          => (~last'.ok /\ chainVars' = chainVars) ]_vars

\* the administrator's registerReferral(X, Y, Y, tier) was just rejected
\* while X holds an active record from an earlier registration
C13_Witness ==
    /\ last.op = "registerReferral"
    /\ ~last.ok
    /\ last.who = Admin
    /\ last.res[2] = last.res[3]
    /\ last.res[1] # last.res[2]
    /\ userReferrals[last.res[1]].isActive

\* the legs paid by the last call include one of the two referral legs
PaidReferrer(legs) ==
    \E i \in 1..Len(legs) : legs[i].name \in {"direct", "grand"}

\* C14: for a buyer whose referral record is absent or not active,
\* calculateReferralPayout returns 0, 0 and 0 for every amount, and an
\* accepted processContentPurchase records no referral amounts and a residual
\* platform amount equal to the whole platform leg, attempts and pays no
\* referral leg, and leaves the referral records and earnings untouched.
C14_InactiveBuyerNoReferral ==
    [][ LET buyer == last'.res[1]
            A == last'.amt
            r == userReferrals[buyer]
            rec == payouts'[totalPayouts]
            T == EngineToken
            others == {last'.res[2], evaluatorTreasury, platformTreasury}
        IN  /\ (CallOf("calculateReferralPayout") /\ ~r.isActive)
                  => (last'.res[2] = 0 /\ last'.res[3] = 0 /\ last'.res[4] = 0)
            /\ (CallOf("processContentPurchase") /\ last'.ok /\ ~r.isActive)
                  => /\ rec.directReferrerAmount = 0
                     /\ rec.grandReferrerAmount = 0
                     /\ rec.platformAmount = (A * PLATFORM_RATE) \div RATE_SCALE
                     /\ rec.residualPlatformAmount = rec.platformAmount
                     /\ ~PaidReferrer(last'.legs)
                     /\ last'.failedLeg \notin {"direct", "grand"}
                     /\ \A d \in {r.directReferrer, r.grandReferrer} \ others :
                            balances'[T][d] = balances[T][d]
                     /\ UNCHANGED <<userReferrals, totalReferralEarnings>> ]_vars

\* a purchase of 1000 by a buyer whose record was deactivated was just paid
\* out in full, with 300 recorded as the residual platform amount
C14_Witness ==
    /\ last.op = "processContentPurchase"
    /\ last.ok
    /\ last.ret = "true"
    /\ last.amt = 1000
    /\ userReferrals[last.res[1]].directReferrer # ZERO
    /\ ~userReferrals[last.res[1]].isActive
    /\ payouts[totalPayouts - 1].residualPlatformAmount = 300
    /\ payouts[totalPayouts - 1].directReferrerAmount = 0

\* the legs paid by the last call include the grand-referrer leg
PaidGrand(legs) ==
    \E i \in 1..Len(legs) : legs[i].name = "grand"

\* C15: for an active buyer the grand-referrer amount, returned by
\* calculateReferralPayout or recorded by processContentPurchase, is non-zero
\* only if the buyer's grand referrer is non-null and has an active record at
\* the time of the call; when the grand referrer is null, unregistered or
\* deactivated the grand amount is 0, the direct amount is still
\* floor(A * directRate[tier] / 10000), the recorded residual platform amount
\* is the platform leg minus the direct amount alone, and no grand leg is
\* paid.
C15_GrandNeedsActiveRecord ==
    [][ LET buyer == last'.res[1]
            A == last'.amt
            r == userReferrals[buyer]
            grandOk == /\ r.grandReferrer # ZERO
                       /\ userReferrals[r.grandReferrer].isActive
            rec == payouts'[totalPayouts]
        IN  /\ (CallOf("calculateReferralPayout") /\ r.isActive)
                  => /\ last'.res[3] # 0 => grandOk
                     /\ ~grandOk
                           => /\ last'.res[3] = 0
                              /\ IsShare(last'.res[2], A, directReferrerRates[r.tier])
                              /\ last'.res[4] = last'.res[2]
            /\ (CallOf("processContentPurchase") /\ last'.ok /\ r.isActive)
                  => /\ rec.grandReferrerAmount # 0 => grandOk
                     /\ ~grandOk
                           => /\ rec.grandReferrerAmount = 0
                              /\ IsShare(rec.directReferrerAmount, A,
                                         directReferrerRates[r.tier])
                              /\ rec.residualPlatformAmount
                                    = rec.platformAmount - rec.directReferrerAmount
                              /\ ~PaidGrand(last'.legs)
                              /\ last'.failedLeg # "grand" ]_vars

\* a purchase of 1000 by an active buyer whose grand referrer is named but
\* has no active record was just paid out in full: a direct amount and no
\* grand amount recorded
C15_Witness ==
    /\ last.op = "processContentPurchase"
    /\ last.ok
    /\ last.ret = "true"
    /\ last.amt = 1000
    /\ userReferrals[last.res[1]].isActive
    /\ userReferrals[last.res[1]].grandReferrer # ZERO
    /\ ~userReferrals[userReferrals[last.res[1]].grandReferrer].isActive
    /\ payouts[totalPayouts - 1].directReferrerAmount > 0
    /\ payouts[totalPayouts - 1].grandReferrerAmount = 0
    /\ payouts[totalPayouts - 1].residualPlatformAmount
          = 300 - payouts[totalPayouts - 1].directReferrerAmount

\* every tier's direct rate is at most 1000 and its grand rate at most 500
RatesWithinLimits ==
    \A t \in Tiers : directReferrerRates[t] <= 1000 /\ grandReferrerRates[t] <= 500

\* for every buyer and amount the platform leg covers the referral total
SubtractionNeverUnderflows ==
    \A b \in Users : \A a \in Amounts \cup (0 .. 20) :
        (a * PLATFORM_RATE) \div RATE_SCALE - CalculateReferralPayouts(b, a).total >= 0

\* C16: in every reachable state every tier's direct rate is at most 1000 and
\* its grand rate at most 500; updateReferralRates with a higher direct or
\* grand rate is rejected and changes nothing; so for every buyer and amount
\* the platform leg minus the referral total is non-negative, and a
\* processContentPurchase on the unpaused Engine with non-zero buyer and
\* miner and a positive amount is accepted with a non-negative residual.
C16_RatesBounded ==
    [][ /\ RatesWithinLimits /\ RatesWithinLimits'
        /\ last.op = "constructor" => SubtractionNeverUnderflows
        /\ \/ UNCHANGED <<directReferrerRates, grandReferrerRates, userReferrals>>
           \/ SubtractionNeverUnderflows'
        /\ (/\ CallOf("updateReferralRates")
            /\ (last'.res[2] > 1000 \/ last'.res[3] > 500))
              => (~last'.ok /\ chainVars' = chainVars)
        /\ (/\ CallOf("processContentPurchase")
            /\ ~engPaused
            /\ last'.res[1] # ZERO
            /\ last'.res[2] # ZERO
            /\ last'.amt > 0)
              => /\ last'.ok
                 /\ payouts'[totalPayouts].residualPlatformAmount >= 0
                 /\ payouts'[totalPayouts].residualPlatformAmount
                       = payouts'[totalPayouts].platformAmount
                         - payouts'[totalPayouts].directReferrerAmount
                         - payouts'[totalPayouts].grandReferrerAmount ]_vars

\* with the SILVER rates raised to the limits 1000 and 500, the
\* administrator's update to a direct rate above 1000 was just rejected
C16_Witness ==
    /\ last.op = "updateReferralRates"
    /\ ~last.ok
    /\ last.who = Admin
    /\ last.res[2] > 1000
    /\ directReferrerRates["SILVER"] = 1000
    /\ grandReferrerRates["SILVER"] = 500

\* C17: with no reward distribution address configured in the Registry, a
\* purchaseContent of an available content by a buyer who holds and has
\* approved the price goes through, and every purchase that goes through
\* moves exactly the price from the buyer to the Registry, which keeps it,
\* makes the buyer the owner, and creates no payout record and moves no
\* other balance.
C17_NoEngineRegistryKeepsPrice ==
    [][ LET b == last'.who
            id == last'.id
            price == contents[id].price
            T == roastToken
        IN  /\ ( /\ CallOf("purchaseContent")
                 /\ rewardDistribution = ZERO
                 /\ ~regPaused
                 /\ contentExistsMap[id]
                 /\ contents[id].isAvailable
                 /\ ~tokPaused[T]
                 /\ balances[T][b] >= price
                 /\ allowances[T][b] >= price )
               => last'.ok
            /\ (PurchaseCall /\ last'.ok /\ rewardDistribution = ZERO)
               => /\ balances'[T][b] = balances[T][b] - price
                  /\ balances'[T][Registry] = balances[T][Registry] + price
                  /\ \A a \in Addrs \ {b, Registry} :
                         balances'[T][a] = balances[T][a]
                  /\ \A t \in Tokens \ {T} : balances'[t] = balances[t]
                  /\ contents'[id].currentOwner = b
                  /\ ~contents'[id].isAvailable
                  /\ UNCHANGED <<payouts, totalPayouts, userReferrals,
                                 totalReferralEarnings>>
                  /\ last'.ret = "none" ]_vars

\* a purchase at a positive price through a Registry without an Engine just
\* went through: the Registry holds the price and the ledger is empty
C17_Witness ==
    /\ last.op = "purchaseContent"
    /\ last.ok
    /\ rewardDistribution = ZERO
    /\ contents[last.id].price > 0
    /\ contents[last.id].currentOwner = last.who
    /\ balances[roastToken][Registry] = contents[last.id].price
    /\ totalPayouts = 0

\* outcome of approve(Registry, price) by the buyer followed by
\* purchaseContent(contentId), computed on the current state
ApproveThenPurchase(buyer, contentId) ==
    LET price == contents[contentId].price
        approved == [allowances EXCEPT ![roastToken][buyer] = price]
        r == PurchaseBody(buyer, contentId, approved)
        ok == PurchaseRequire(contentId) /\ ~r.aborted
    IN  [ok |-> ok,
         contents |-> IF ok THEN r.contents ELSE contents,
         userContents |-> IF ok THEN r.userContents ELSE userContents,
         balances |-> IF ok THEN r.bal ELSE balances,
         payouts |-> IF ok THEN r.payouts ELSE payouts,
         totalPayouts |-> IF ok THEN r.totalPayouts ELSE totalPayouts]

PrivilegedOps ==
    {"approveContent", "updatePrice", "setRewardDistribution", "setRoastToken",
     "registryPause", "registryUnpause", "emergencyWithdrawETH",
     "registryEmergencyWithdrawToken",
     "registerReferral", "updateUserTier", "updateReferralRates",
     "deactivateReferral", "setEvaluatorTreasury", "setPlatformTreasury",
     "enginePause", "engineUnpause", "engineEmergencyWithdrawToken"}

\* C19: every owner-only function of the Registry (approveContent,
\* updatePrice, setRewardDistribution, setRoastToken, pause, unpause, the two
\* emergency withdrawals) and of the Engine (registerReferral, updateUserTier,
\* updateReferralRates, deactivateReferral, the two treasury setters, pause,
\* unpause, the emergency withdrawal), called by anyone but the
\* administrator, reverts and changes no state.
C19_OnlyAdministrator ==
    [][ (/\ last.prev = <<>>
         /\ last'.op \in PrivilegedOps
         /\ last'.who # Admin)
        => (~last'.ok /\ chainVars' = chainVars /\ now' = now) ]_vars

\* the Registry holds the 1000 of a purchase and the administrator could
\* withdraw them; the buyer's emergency withdrawal of them was just rejected
C19_Witness ==
    /\ last.op = "registryEmergencyWithdrawToken"
    /\ ~last.ok
    /\ last.who # Admin
    /\ balances[last.res[1]][Registry] >= last.amt
    /\ last.amt > 0
    /\ ~tokPaused[last.res[1]]

\* the workflow has reached its fifth step: content `id` was registered by
\* its creator, approved, and bought by the buyer through a Registry with no
\* Engine configured; the Engine holds nothing and its ledger is empty; the
\* administrator now calls processContentPurchase(id, buyer, creator, price)
C20_Workflow ==
    LET id == last'.id
    IN  /\ CallOf("processContentPurchase")
        /\ last'.who = Admin
        /\ rewardDistribution = ZERO
        /\ balances[EngineToken][Engine] = 0
        /\ totalPayouts = 0
        /\ contentExistsMap[id]
        /\ contents[id].isApproved
        /\ ~contents[id].isAvailable
        /\ contents[id].currentOwner = last'.res[1]
        /\ contents[id].creator = last'.res[2]
        /\ contents[id].creator # contents[id].currentOwner
        /\ contents[id].price = last'.amt

\* payout record 0 echoes the call's contentId, buyer, miner and amount
C20_Echo ==
    /\ last'.ok
    /\ totalPayouts' = 1
    /\ payouts'[0].contentId = last'.id
    /\ payouts'[0].buyer = last'.res[1]
    /\ payouts'[0].miner = last'.res[2]
    /\ payouts'[0].totalAmount = last'.amt

\* C20 as stated: in the full workflow with no Engine configured in the
\* Registry and an Engine that was never funded, after the administrator's
\* processContentPurchase(contentId, buyer, creator, price) payout record 0
\* echoes contentId, buyer, miner and totalAmount and has completed = true.
C20_AsStated ==
    [][ C20_Workflow => (C20_Echo /\ payouts'[0].completed) ]_vars

\* C20, what the contracts do in that workflow: record 0 echoes the four
\* inputs, but the miner leg fails on the Engine's empty balance, so the call
\* returns false, pays nobody and leaves completed = false.
C20_WorkflowRecordIncomplete ==
    [][ C20_Workflow
        => /\ C20_Echo
           /\ ~payouts'[0].completed
           /\ last'.ret = "false"
           /\ last'.failedLeg = "miner"
           /\ last'.legs = <<>>
           /\ balances' = balances ]_vars

\* the workflow's processContentPurchase has just returned: record 0 is
\* stored with the four inputs and is not completed
C20_Witness ==
    /\ last.op = "processContentPurchase"
    /\ last.ok
    /\ last.who = Admin
    /\ rewardDistribution = ZERO
    /\ contents[last.id].currentOwner = last.res[1]
    /\ ~contents[last.id].isAvailable
    /\ balances[roastToken][Registry] = last.amt
    /\ balances[EngineToken][Engine] = 0
    /\ totalPayouts = 1
    /\ payouts[0].totalAmount = last.amt
    /\ ~payouts[0].completed

\* C21: an accepted processContentPurchase emits PayoutDistributed, once, if
\* and only if it marks its record completed, and it marks the record
\* completed exactly when every transfer leg it had to make was paid; a call
\* with a failed leg returns false and emits no distribution event.
C21_EventIffCompleted ==
    [][ LET rec == payouts'[totalPayouts]
            emitted == Count(last'.events, "PayoutDistributed")
            due == TransferLegs(last'.res[1], last'.res[2], rec.minerAmount,
                                rec.evaluatorAmount, rec.residualPlatformAmount,
                                rec.directReferrerAmount, rec.grandReferrerAmount)
        IN  (CallOf("processContentPurchase") /\ last'.ok)
            => /\ emitted = (IF rec.completed THEN 1 ELSE 0)
               /\ rec.completed = (last'.failedLeg = "none")
               /\ rec.completed = (last'.legs = due)
               /\ rec.completed = (last'.ret = "true")
               /\ last'.failedLeg # "none" => last'.events = <<>> ]_vars

\* a purchase of 1000 was paid to the miner and the evaluator treasury, the
\* third leg failed: no event, the record not completed
C21_Witness ==
    /\ last.op = "processContentPurchase"
    /\ last.ok
    /\ Len(last.legs) = 2
    /\ last.failedLeg = "residual"
    /\ last.events = <<>>
    /\ ~payouts[totalPayouts - 1].completed

\* the step is a call made from inside a suspended call's transfer
NestedCall(op) ==
    /\ pending # <<>>
    /\ pending' = pending
    /\ last.prev = <<>>
    /\ last'.op = op

\* the step is the completion of the suspended call `op`, which goes through
Finished(op) ==
    /\ pending # <<>>
    /\ pending' = <<>>
    /\ pending.op = op
    /\ last'.ok

\* C22: while a purchaseContent or purchaseContentWithPermit is inside one of
\* its transfers, a nested call of either purchase entry point is rejected
\* and changes nothing; while processContentPurchase is inside one of its
\* transfers, a nested processContentPurchase is rejected and changes
\* nothing.  So when the suspended purchase of an id by a buyer goes through,
\* the content record was not touched since the purchase began, the buyer is
\* the owner, the id was added once to the buyer's index and to nobody
\* else's, and the purchase appended one payout record if an Engine is
\* configured and none otherwise; and a processContentPurchase suspended in
\* a transfer ends with exactly one record more than it began with.
C22_NestedCallsRejected ==
    [][ LET st == pending.start
            id == pending.id
            b == pending.who
            purchase == Finished("purchaseContent")
                        \/ Finished("purchaseContentWithPermit")
        IN  /\ ( /\ NestedCall("purchaseContent")
                    \/ NestedCall("purchaseContentWithPermit")
                 /\ regStatus = "ENTERED" )
               => (~last'.ok /\ chainVars' = chainVars)
            /\ (NestedCall("processContentPurchase") /\ engStatus = "ENTERED")
               => (~last'.ok /\ chainVars' = chainVars)
            /\ pending # <<>>
               => /\ pending.op # "processContentPurchase" => regStatus = "ENTERED"
                  /\ pending.at = "engineTransfer" => engStatus = "ENTERED"
            /\ purchase
               => /\ contents[id] = st.contents[id]
                  /\ contents'[id].currentOwner = b
                  /\ ~contents'[id].isAvailable
                  /\ userContents'[b] = Append(st.userContents[b], id)
                  /\ \A a \in Addrs \ {b} : userContents'[a] = st.userContents[a]
                  /\ totalPayouts' = totalPayouts
                                        + (IF rewardDistribution = ZERO THEN 0 ELSE 1)
                  /\ pending.at = "engineTransfer"
                        => totalPayouts' = st.totalPayouts + 1
            /\ Finished("processContentPurchase")
               => totalPayouts' = st.totalPayouts + 1 ]_vars

\* a purchase is suspended in a transfer and another holder, who has the
\* price and has approved it, just called purchaseContent for the same, still
\* available content: rejected
C22_Witness ==
    /\ pending # <<>>
    /\ pending.op \in {"purchaseContent", "purchaseContentWithPermit"}
    /\ regStatus = "ENTERED"
    /\ last.op = "purchaseContent"
    /\ ~last.ok
    /\ last.who # pending.who
    /\ last.id = pending.id
    /\ contents[last.id].isAvailable
    /\ balances[roastToken][last.who] >= contents[last.id].price
    /\ allowances[roastToken][last.who] >= contents[last.id].price

\* the records' accumulators of `u` do not decrease in the step
AccumulatorsKept(u) ==
    /\ userReferrals'[u].totalEarnings >= userReferrals[u].totalEarnings
    /\ userReferrals'[u].totalReferrals >= userReferrals[u].totalReferrals

\* C23 as stated: for every user whose referral record is active,
\* totalEarnings and totalReferrals never decrease across any operation of
\* the Engine.
C23_AsStated ==
    [][ \A u \in Addrs : userReferrals[u].isActive => AccumulatorsKept(u) ]_vars

\* C23, amended: for every user whose referral record is active,
\* totalEarnings and totalReferrals do not decrease across any operation of
\* the Engine except an accepted registerReferral for that same user, which
\* sets both to zero.
C23_AccumulatorsKeptUnlessReregistered ==
    [][ \A u \in Addrs :
          userReferrals[u].isActive
          => IF CallOf("registerReferral") /\ last'.ok /\ last'.res[1] = u
             THEN /\ userReferrals'[u].totalEarnings = 0
                  /\ userReferrals'[u].totalReferrals = 0
             ELSE AccumulatorsKept(u) ]_vars

\* an active grand referrer that had earned a share was just registered
\* again: its record's totalEarnings is back at zero
C23_Witness ==
    /\ last.op = "registerReferral"
    /\ last.ok
    /\ userReferrals[last.res[1]].isActive
    /\ userReferrals[last.res[1]].totalEarnings = 0
    /\ totalReferralEarnings[last.res[1]] > 0

\* C24 as stated: a content is personalized only after it was approved and
\* sold, and once markContentPersonalized has succeeded for an id no later
\* operation changes any field of that content record.
C24_AsStated ==
    [][ /\ (CallOf("markContentPersonalized") /\ last'.ok)
              => /\ contents[last'.id].isApproved
                 /\ contents[last'.id].soldAt > 0
        /\ \A id \in ContentIds :
              (contentExistsMap[id] /\ contents[id].isPersonalized)
                  => contents'[id] = contents[id] ]_vars

\* C24, what the Registry does: markContentPersonalized asks only for the
\* current owner, which is the creator from registration on; the record of a
\* content that is both sold and personalized never changes again, and no
\* operation ever clears isPersonalized or changes the personalized hash.
C24_SoldAndPersonalizedIsFinal ==
    [][ \A id \in ContentIds :
          (contentExistsMap[id] /\ contents[id].isPersonalized)
              => /\ contents'[id].isPersonalized
                 /\ contents'[id].personalizedHash = contents[id].personalizedHash
                 /\ contents'[id].personalizedAt = contents[id].personalizedAt
                 /\ contents[id].soldAt > 0 => contents'[id] = contents[id] ]_vars

\* a content its creator had personalized right after registering it was
\* just approved, which set its price and put it on sale
C24_Witness ==
    /\ last.op = "approveContent"
    /\ last.ok
    /\ contents[last.id].isPersonalized
    /\ contents[last.id].isAvailable
    /\ contents[last.id].soldAt = 0

\* C25: in every reachable state, every existing content that is available
\* is approved.
C25_AvailableImpliesApproved ==
    \A id \in ContentIds :
        (contentExistsMap[id] /\ contents[id].isAvailable) => contents[id].isApproved

\* one content was just approved and is on sale while the other is
\* registered and neither approved nor on sale
C25_Witness ==
    \E other \in ContentIds :
        /\ last.op = "approveContent"
        /\ last.ok
        /\ contents[last.id].isAvailable /\ contents[last.id].isApproved
        /\ contentExistsMap[other]
        /\ ~contents[other].isAvailable /\ ~contents[other].isApproved

\* C26: approvedAt, soldAt and personalizedAt are each zero until the content
\* is approved, sold and personalized respectively; each is set by that
\* transition to the time of the call and never changes afterwards; createdAt
\* is set to the time of the registration and never changes.
C26_TimestampsSetOnce ==
    [][ \A id \in ContentIds :
          LET c == contents[id]
              d == contents'[id]
              done == last'.ok /\ last'.id = id
          IN  /\ contentExistsMap[id]
                    => /\ c.createdAt > 0
                       /\ (c.approvedAt = 0) <=> ~c.isApproved
                       /\ (c.soldAt = 0) <=> (c.isAvailable \/ ~c.isApproved)
                       /\ (c.personalizedAt = 0) <=> ~c.isPersonalized
                       /\ d.createdAt = c.createdAt
              /\ (~contentExistsMap[id] /\ contentExistsMap'[id])
                    => /\ CallOf("registerContent") /\ done
                       /\ d.createdAt = now
                       /\ d.approvedAt = 0 /\ d.soldAt = 0 /\ d.personalizedAt = 0
              /\ (CallOf("approveContent") /\ done) => d.approvedAt = now
              /\ (PurchaseCall /\ done) => d.soldAt = now
              /\ (CallOf("markContentPersonalized") /\ done) => d.personalizedAt = now
              /\ d.approvedAt # c.approvedAt
                    => c.approvedAt = 0 /\ CallOf("approveContent") /\ done
              /\ d.soldAt # c.soldAt
                    => c.soldAt = 0 /\ PurchaseCall /\ done
              /\ d.personalizedAt # c.personalizedAt
                    => c.personalizedAt = 0 /\ CallOf("markContentPersonalized") /\ done
       ]_vars

\* a content registered at one time and approved, sold and personalized at a
\* later one
C26_Witness ==
    /\ last.op = "markContentPersonalized"
    /\ last.ok
    /\ contents[last.id].createdAt < contents[last.id].approvedAt
    /\ contents[last.id].soldAt > 0
    /\ contents[last.id].personalizedAt = now

\* C27: the price of a content is zero exactly while the content is
\* unapproved and positive once it is approved; it changes only in a committed
\* approveContent or updatePrice for that content; updatePrice is rejected and
\* changes nothing when the content is unapproved, is sold or the new price is
\* zero; the price of a sold content never changes.
C27_PriceRules ==
    [][ \A id \in ContentIds :
          LET c == contents[id]
              d == contents'[id]
              sold == c.isApproved /\ ~c.isAvailable
          IN  /\ contentExistsMap[id]
                    => /\ (c.price = 0) <=> ~c.isApproved
                       /\ c.isApproved => c.price > 0
              /\ d.price # c.price
                    => /\ CallOf("approveContent") \/ CallOf("updatePrice")
                       /\ last'.ok /\ last'.id = id
                       /\ d.price = last'.amt
              /\ (/\ CallOf("updatePrice") /\ last'.id = id
                  /\ ~c.isApproved \/ sold \/ last'.amt = 0)
                    => ~last'.ok /\ chainVars' = chainVars
              /\ (contentExistsMap[id] /\ sold) => d.price = c.price
       ]_vars

\* the owner's update of the price of a sold content to a positive value was
\* just rejected
C27_Witness ==
    /\ last.op = "updatePrice"
    /\ ~last.ok
    /\ last.who = Admin
    /\ last.amt > 0
    /\ contents[last.id].soldAt > 0
    /\ contents[last.id].price > 0

\* an accepted processContentPurchase whose buyer has an active SILVER record
\* with an active grand referrer, the SILVER rates being those of construction
SilverChainPurchase ==
    LET r == userReferrals[last'.res[1]]
    IN  /\ CallOf("processContentPurchase")
        /\ last'.ok
        /\ r.isActive
        /\ r.tier = "SILVER"
        /\ r.grandReferrer # ZERO
        /\ userReferrals[r.grandReferrer].isActive
        /\ directReferrerRates["SILVER"] = 500
        /\ grandReferrerRates["SILVER"] = 250

\* C28 as stated: for a SILVER buyer with an active chain the recorded
\* residualPlatformAmount is the platform leg minus the direct and grand
\* amounts and is also floor(A * 2250 / 10000), for every amount A > 0.
C28_AsStated ==
    [][ LET rec == payouts'[totalPayouts]
            A == last'.amt
        IN  SilverChainPurchase
              => /\ rec.residualPlatformAmount
                       = rec.platformAmount - rec.directReferrerAmount
                           - rec.grandReferrerAmount
                 /\ rec.residualPlatformAmount = (A * 2250) \div 10000 ]_vars

\* C28, what the Engine records: for a SILVER buyer with an active chain and
\* the construction rates, residualPlatformAmount is floor(A * 3000 / 10000)
\* minus floor(A * 500 / 10000) minus floor(A * 250 / 10000); this is at least
\* floor(A * 2250 / 10000), at most 2 more, and equal to it when A is a
\* multiple of 40.
C28_ResidualOfTruncatedLegs ==
    [][ LET rec == payouts'[totalPayouts]
            A == last'.amt
            exact == (A * 2250) \div 10000
        IN  SilverChainPurchase
              => /\ rec.platformAmount = (A * 3000) \div 10000
                 /\ rec.directReferrerAmount = (A * 500) \div 10000
                 /\ rec.grandReferrerAmount = (A * 250) \div 10000
                 /\ rec.residualPlatformAmount
                       = rec.platformAmount - rec.directReferrerAmount
                           - rec.grandReferrerAmount
                 /\ exact <= rec.residualPlatformAmount
                 /\ rec.residualPlatformAmount <= exact + 2
                 /\ A % 40 = 0 => rec.residualPlatformAmount = exact ]_vars

\* a SILVER buyer with an active chain bought for 39: the platform leg is 11,
\* the direct amount 1, the grand amount 0 and the residual recorded is 10,
\* while floor(39 * 2250 / 10000) is 8
C28_Witness ==
    /\ last.op = "processContentPurchase"
    /\ last.ok
    /\ last.amt = 39
    /\ userReferrals[last.res[1]].isActive
    /\ userReferrals[last.res[1]].tier = "SILVER"
    /\ userReferrals[last.res[1]].grandReferrer # ZERO
    /\ userReferrals[userReferrals[last.res[1]].grandReferrer].isActive
    /\ payouts[totalPayouts - 1].platformAmount = 11
    /\ payouts[totalPayouts - 1].directReferrerAmount = 1
    /\ payouts[totalPayouts - 1].grandReferrerAmount = 0
    /\ payouts[totalPayouts - 1].residualPlatformAmount = 10

\* the referral record of every address but the two given is as before, and
\* so is its entry of totalReferralEarnings
OthersKept(d, g) ==
    \A u \in Addrs \ {d, g} :
        /\ userReferrals'[u] = userReferrals[u]
        /\ totalReferralEarnings'[u] = totalReferralEarnings[u]

\* C29 as stated: a fully successful processContentPurchase with a non-zero
\* referral amount adds the direct amount to the direct referrer's
\* totalEarnings and one to its totalReferrals, adds the grand amount to the
\* grand referrer's totalEarnings and leaves its totalReferrals, and changes
\* no other identity's accumulators; a call with a failed leg changes no
\* accumulator.
C29_AsStated ==
    [][ LET r == userReferrals[last'.res[1]]
            d == r.directReferrer
            g == r.grandReferrer
            rec == payouts'[totalPayouts]
        IN  (CallOf("processContentPurchase") /\ last'.ok)
              => /\ (/\ last'.ret = "true"
                     /\ rec.directReferrerAmount + rec.grandReferrerAmount > 0)
                       => /\ userReferrals'[d].totalEarnings
                                = userReferrals[d].totalEarnings + rec.directReferrerAmount
                          /\ userReferrals'[d].totalReferrals
                                = userReferrals[d].totalReferrals + 1
                          /\ rec.grandReferrerAmount > 0
                                => /\ userReferrals'[g].totalEarnings
                                         = userReferrals[g].totalEarnings
                                             + rec.grandReferrerAmount
                                   /\ userReferrals'[g].totalReferrals
                                         = userReferrals[g].totalReferrals
                          /\ OthersKept(d, g)
                 /\ last'.ret = "false"
                       => /\ userReferrals' = userReferrals
                          /\ totalReferralEarnings' = totalReferralEarnings ]_vars

\* C29, what the Engine does: after a fully successful processContentPurchase
\* the direct referrer's totalEarnings has grown by the direct amount and its
\* totalReferrals by one if the direct amount is non-zero and by nothing if it
\* is zero; the grand referrer's totalEarnings has grown by the grand amount
\* and its totalReferrals is unchanged; totalReferralEarnings of the two has
\* grown by the same amounts; nothing else of any referral record and no
\* other identity's accumulators change. A call with a failed leg changes no
\* accumulator.
C29_CountOnlyWithDirectAmount ==
    [][ LET r == userReferrals[last'.res[1]]
            d == r.directReferrer
            g == r.grandReferrer
            rec == payouts'[totalPayouts]
            da == rec.directReferrerAmount
            ga == rec.grandReferrerAmount
        IN  (CallOf("processContentPurchase") /\ last'.ok)
              => /\ (last'.ret = "true" /\ da + ga > 0)
                       => /\ userReferrals'[d] =
                                [userReferrals[d] EXCEPT
                                    !.totalEarnings = @ + da,
                                    !.totalReferrals = IF da > 0 THEN @ + 1 ELSE @]
                          /\ totalReferralEarnings'[d] = totalReferralEarnings[d] + da
                          /\ ga > 0
                                => /\ userReferrals'[g] =
                                         [userReferrals[g] EXCEPT !.totalEarnings = @ + ga]
                                   /\ totalReferralEarnings'[g]
                                         = totalReferralEarnings[g] + ga
                          /\ ga = 0 => OthersKept(d, d)
                          /\ OthersKept(d, g)
                 /\ (last'.ret = "false" \/ da + ga = 0)
                       => /\ userReferrals' = userReferrals
                          /\ totalReferralEarnings' = totalReferralEarnings ]_vars

\* a purchase for 39 under SILVER rates of 1% and 5% was paid out in full:
\* the direct amount was 0 and the grand amount 1, so the grand referrer has
\* earned 1 and the direct referrer's totalReferrals is still 0
C29_Witness ==
    /\ last.op = "processContentPurchase"
    /\ last.ok
    /\ last.ret = "true"
    /\ payouts[totalPayouts - 1].directReferrerAmount = 0
    /\ payouts[totalPayouts - 1].grandReferrerAmount = 1
    /\ userReferrals[userReferrals[last.res[1]].grandReferrer].totalEarnings = 1
    /\ userReferrals[userReferrals[last.res[1]].directReferrer].totalReferrals = 0

\* C30: registerReferral by the owner for a user who already has a record,
\* active or deactivated, with valid arguments (user and direct referrer
\* non-null, the three addresses pairwise different) is accepted and replaces
\* the record: referrers and tier are the ones passed, isActive is true,
\* totalEarnings and totalReferrals are zero; no other user's record changes.
C30_ReregistrationReplaces ==
    [][ LET user == last'.res[1]
            dr == last'.res[2]
            gr == last'.res[3]
            tier == last'.res[4]
        IN  ( /\ CallOf("registerReferral")
              /\ last'.who = Admin
              /\ userReferrals[user].directReferrer # ZERO
              /\ user # ZERO /\ dr # ZERO
              /\ user # dr /\ user # gr /\ dr # gr )
            => /\ last'.ok
               /\ userReferrals'[user] =
                     [directReferrer |-> dr, grandReferrer |-> gr, tier |-> tier,
                      isActive |-> TRUE, totalEarnings |-> 0, totalReferrals |-> 0]
               /\ \A u \in Addrs \ {user} : userReferrals'[u] = userReferrals[u]
       ]_vars

\* a buyer whose purchase had paid its grand referrer was just registered
\* again, now without a grand referrer
C30_Witness ==
    /\ last.op = "registerReferral"
    /\ last.ok
    /\ totalPayouts > 0
    /\ payouts[0].buyer = last.res[1]
    /\ payouts[0].grandReferrerAmount > 0
    /\ userReferrals[last.res[1]].grandReferrer = ZERO
    /\ userReferrals[last.res[1]].isActive

\* C31: an accepted deactivateReferral(user) sets that user's isActive to
\* false and leaves the user's directReferrer, grandReferrer, tier,
\* totalEarnings and totalReferrals, every other user's record, the rate
\* tables, the payout ledger and everything else of the chain state as they
\* were.
C31_DeactivationOnlyClearsActive ==
    [][ LET user == last'.res[1]
            r == userReferrals[user]
        IN  (CallOf("deactivateReferral") /\ last'.ok)
            => /\ userReferrals'[user] =
                     [directReferrer |-> r.directReferrer,
                      grandReferrer |-> r.grandReferrer, tier |-> r.tier,
                      isActive |-> FALSE, totalEarnings |-> r.totalEarnings,
                      totalReferrals |-> r.totalReferrals]
               /\ \A u \in Addrs \ {user} : userReferrals'[u] = userReferrals[u]
               /\ UNCHANGED <<directReferrerRates, grandReferrerRates, payouts,
                              totalPayouts, totalReferralEarnings,
                              evaluatorTreasury, platformTreasury, engPaused,
                              regVars, tokVars>> ]_vars

\* a grand referrer that had earned a share was just deactivated and its
\* record still shows the referrer, the tier and the earnings
C31_Witness ==
    /\ last.op = "deactivateReferral"
    /\ last.ok
    /\ ~userReferrals[last.res[1]].isActive
    /\ userReferrals[last.res[1]].directReferrer # ZERO
    /\ userReferrals[last.res[1]].totalEarnings > 0
    /\ totalPayouts > 0

\* C32: a payout record stored by a processContentPurchase that has returned
\* is never changed by a later operation: every field keeps its value, a
\* record left incomplete is never marked completed and a completed record
\* never loses the mark.
C32_RecordsNeverChange ==
    [][ /\ totalPayouts' >= totalPayouts
        /\ \A i \in 0..(totalPayouts - 1) :
              /\ payouts'[i] = payouts[i]
              /\ payouts'[i].completed = payouts[i].completed ]_vars

\* a purchase was just paid in full and recorded as completed after an
\* earlier one whose record is still incomplete
C32_Witness ==
    /\ last.op = "processContentPurchase"
    /\ last.ret = "true"
    /\ totalPayouts = 2
    /\ ~payouts[0].completed
    /\ payouts[0].totalAmount > 0
    /\ payouts[1].completed

\* C33: processContentPurchase does not look at its caller. From one Engine
\* state the call with the same (contentId, buyer, miner, amount) is accepted
\* or rejected, leaves the same state, makes the same transfers and returns
\* the same value whichever identity makes it: every call's outcome is the
\* one computed from the state and these four arguments alone. An unpaused
\* Engine therefore pays out of its custody for any caller and any non-null
\* buyer and miner.
C33_CallerIrrelevant ==
    [][ LET id == last'.id
            buyer == last'.res[1]
            miner == last'.res[2]
            A == last'.amt
            ok == ProcessRequire(buyer, miner, A)
            r == ProcessBody(balances, id, buyer, miner, A)
        IN  CallOf("processContentPurchase")
            => /\ last'.ok = ok
               /\ ok => /\ payouts' = r.payouts
                         /\ totalPayouts' = r.totalPayouts
                         /\ userReferrals' = r.refs
                         /\ totalReferralEarnings' = r.earn
                         /\ balances' = r.bal
                         /\ last'.ret = r.ret
                         /\ last'.legs = r.legs
                         /\ last'.events = r.events
               /\ ~ok => chainVars' = chainVars
               /\ UNCHANGED <<regVars, allowances, nonces, tokPaused,
                              directReferrerRates, grandReferrerRates,
                              evaluatorTreasury, platformTreasury, engPaused>>
       ]_vars

\* a user that is neither the owner nor the Registry had the Engine pay 1000
\* with itself as buyer and as miner, no content being registered and no
\* Registry pointing to the Engine
C33_Witness ==
    /\ last.op = "processContentPurchase"
    /\ last.ok
    /\ last.who = "u3"
    /\ last.res = <<"u3", "u3">>
    /\ last.amt = 1000
    /\ last.ret = "true"
    /\ totalContent = 0
    /\ rewardDistribution = ZERO
    /\ payouts[totalPayouts - 1].completed

\* C34: registerReferral compares only its own three addresses. Called by the
\* owner with a non-null user and direct referrer it is rejected exactly when
\* user = directReferrer, user = grandReferrer or directReferrer =
\* grandReferrer, whatever records exist: registerReferral(B, A, g2, t2)
\* after registerReferral(A, B, g1, t1) is accepted and leaves A and B each
\* other's active direct referrer.
C34_ValidationPairwiseOnly ==
    [][ LET user == last'.res[1]
            dr == last'.res[2]
            gr == last'.res[3]
            mutual == /\ userReferrals[dr].isActive
                      /\ userReferrals[dr].directReferrer = user
        IN  ( /\ CallOf("registerReferral")
              /\ last'.who = Admin
              /\ user # ZERO
              /\ dr # ZERO )
            => /\ last'.ok <=> ~(user = dr \/ user = gr \/ dr = gr)
               /\ (last'.ok /\ mutual)
                     => /\ userReferrals'[user].isActive
                        /\ userReferrals'[user].directReferrer = dr
                        /\ userReferrals'[dr].isActive
                        /\ userReferrals'[dr].directReferrer = user ]_vars

\* u2 and u3 are each other's active direct referrer, the second of the two
\* registrations having just been accepted
C34_Witness ==
    /\ last.op = "registerReferral"
    /\ last.ok
    /\ userReferrals["u2"].isActive /\ userReferrals["u2"].directReferrer = "u3"
    /\ userReferrals["u3"].isActive /\ userReferrals["u3"].directReferrer = "u2"

\* C35: a content id is sold at most once. A purchase is accepted only for a
\* content never sold before; once a content is sold it is never available
\* again, every later purchase of it is rejected and changes nothing, and its
\* currentOwner and soldAt keep their values.
C35_SoldAtMostOnce ==
    [][ \A id \in ContentIds :
          LET c == contents[id]
              d == contents'[id]
          IN  /\ (PurchaseCall /\ last'.ok /\ last'.id = id)
                    => /\ c.soldAt = 0 /\ c.isAvailable
                       /\ d.soldAt > 0 /\ ~d.isAvailable
                       /\ d.currentOwner = last'.who
              /\ (contentExistsMap[id] /\ c.soldAt > 0)
                    => /\ ~c.isAvailable /\ ~d.isAvailable
                       /\ d.currentOwner = c.currentOwner
                       /\ d.soldAt = c.soldAt
                       /\ (PurchaseCall /\ last'.id = id)
                             => ~last'.ok /\ chainVars' = chainVars ]_vars

\* a buyer holding the price and having approved the Registry for it was
\* just refused a content that another buyer owns since an earlier purchase
C35_Witness ==
    /\ last.op \in {"purchaseContent", "purchaseContentWithPermit"}
    /\ ~last.ok
    /\ ~regPaused
    /\ contents[last.id].soldAt > 0
    /\ contents[last.id].currentOwner # last.who
    /\ contents[last.id].price > 0
    /\ balances[roastToken][last.who] >= contents[last.id].price
    /\ allowances[roastToken][last.who] >= contents[last.id].price

\* the three platform parts of a payout record add up to its platform
\* amount, and its miner, evaluator and platform amounts to its total amount
\* or to at most 2 less
RecordAddsUp(rec) ==
    /\ rec.residualPlatformAmount + rec.directReferrerAmount
          + rec.grandReferrerAmount = rec.platformAmount
    /\ rec.residualPlatformAmount >= 0
    /\ rec.minerAmount + rec.evaluatorAmount + rec.platformAmount <= rec.totalAmount
    /\ rec.totalAmount - (rec.minerAmount + rec.evaluatorAmount + rec.platformAmount) <= 2

\* C36: every payout record, under any tier and any rates the owner has set,
\* has residualPlatformAmount + directReferrerAmount + grandReferrerAmount =
\* platformAmount and minerAmount + evaluatorAmount + platformAmount <=
\* totalAmount with at most 2 units missing; the legs a processContentPurchase
\* pays add up to at most its amount and the Engine's balance goes down by
\* at most that amount, also when a leg fails.
C36_RecordsAddUp ==
    [][ /\ \A i \in 0..(totalPayouts' - 1) : RecordAddsUp(payouts'[i])
        /\ (CallOf("processContentPurchase") /\ last'.ok)
              => /\ SumAll(last'.legs) <= last'.amt
                 /\ balances[EngineToken][Engine] - balances'[EngineToken][Engine]
                       <= last'.amt
                 /\ balances[EngineToken][Engine] - balances'[EngineToken][Engine]
                       <= SumAll(last'.legs) ]_vars

\* a GOLD buyer's purchase for 39 was recorded under SILVER rates raised by
\* the owner: 19 + 7 + 11 of 39, the platform amount split into 2 for the
\* direct referrer and 9 kept
C36_Witness ==
    /\ last.op = "processContentPurchase"
    /\ last.ok
    /\ last.amt = 39
    /\ userReferrals[last.res[1]].tier = "GOLD"
    /\ directReferrerRates["SILVER"] = 1000
    /\ payouts[totalPayouts - 1].minerAmount = 19
    /\ payouts[totalPayouts - 1].evaluatorAmount = 7
    /\ payouts[totalPayouts - 1].platformAmount = 11
    /\ payouts[totalPayouts - 1].directReferrerAmount = 2
    /\ payouts[totalPayouts - 1].residualPlatformAmount = 9

\* C37: when the Registry takes payment in the Engine's token and that token
\* is not paused, every purchase that goes through a Registry with the Engine
\* configured has all its payout legs paid and its record completed, and
\* leaves the Engine holding at least what it held before, the increase
\* being the part of the price the truncated shares do not cover.
C37_SameTokenPurchaseCompletes ==
    [][ LET T == EngineToken
            price == contents[last'.id].price
            rec == payouts'[totalPayouts]
            gain == balances'[T][Engine] - balances[T][Engine]
        IN  ( /\ PurchaseCall
              /\ last'.ok
              /\ rewardDistribution = Engine
              /\ roastToken = T
              /\ ~tokPaused[T] )
            => /\ last'.ret = "true"
               /\ last'.failedLeg = "none"
               /\ totalPayouts' = totalPayouts + 1
               /\ rec.completed
               /\ rec.totalAmount = price
               /\ SumAll(last'.legs)
                     = rec.minerAmount + rec.evaluatorAmount + rec.platformAmount
               /\ gain >= 0
               /\ gain = price - SumAll(last'.legs)
               /\ gain <= 2 ]_vars

\* an Engine that held nothing was just paid 39 by the Registry for a
\* purchase, paid all the legs and is left holding the remainder of 2
C37_Witness ==
    /\ last.op \in {"purchaseContent", "purchaseContentWithPermit"}
    /\ last.ok
    /\ rewardDistribution = Engine
    /\ roastToken = EngineToken
    /\ last.amt = 39
    /\ last.ret = "true"
    /\ payouts[totalPayouts - 1].completed
    /\ SumAll(last.legs) = 37
    /\ balances[EngineToken][Engine] = 2

\* C38: a purchase through a Registry with the Engine configured, while the
\* Engine is paused or would reject the call on its requires, reverts as a
\* whole: the buyer is not charged, owner and availability of the content
\* are unchanged, no payout record is appended, nothing else changes.
C38_EngineRejectionAbortsPurchase ==
    [][ LET id == last'.id
            c == contents[id]
        IN  ( /\ PurchaseCall
              /\ rewardDistribution = Engine
              /\ (engPaused \/ ~ProcessRequire(last'.who, c.currentOwner, c.price)) )
            => /\ ~last'.ok
               /\ balances' = balances /\ allowances' = allowances
               /\ contents' = contents /\ userContents' = userContents
               /\ payouts' = payouts /\ totalPayouts' = totalPayouts
               /\ chainVars' = chainVars ]_vars

\* a buyer holding the price and having approved the Registry for it was
\* just refused a content on sale because the Engine is paused
C38_Witness ==
    /\ last.op = "purchaseContent"
    /\ ~last.ok
    /\ rewardDistribution = Engine
    /\ engPaused
    /\ ~regPaused
    /\ contents[last.id].isAvailable
    /\ contents[last.id].currentOwner = contents[last.id].creator
    /\ balances[roastToken][last.who] >= contents[last.id].price
    /\ allowances[roastToken][last.who] >= contents[last.id].price
    /\ totalPayouts = 0

\* C39: in every reachable state a content that has not been sold
\* (soldAt = 0) has its creator as currentOwner; the creator field never
\* changes after registration; the miner a purchase through the Registry
\* passes to the Engine, and the Engine records and pays first, is the
\* content's creator.
C39_MinerIsCreator ==
    [][ /\ \A id \in ContentIds :
              /\ contentExistsMap[id]
                    => /\ contents[id].soldAt = 0
                             => contents[id].currentOwner = contents[id].creator
                       /\ contents'[id].creator = contents[id].creator
                       /\ contents[id].creator # ZERO
              /\ contentExistsMap'[id]
                    => (contents'[id].soldAt = 0
                          => contents'[id].currentOwner = contents'[id].creator)
        /\ (PurchaseCall /\ last'.ok)
              => /\ last'.res[1] = contents[last'.id].creator
                 /\ rewardDistribution = Engine
                       => /\ payouts'[totalPayouts].miner = contents[last'.id].creator
                          /\ payouts'[totalPayouts].contentId = last'.id
                          /\ last'.legs # <<>>
                                => last'.legs[1].to = contents[last'.id].creator
       ]_vars

\* a content registered by u2 for the creator u1 was just bought by u2
\* through the Engine, which recorded and paid u1 as the miner
C39_Witness ==
    /\ last.op \in {"purchaseContent", "purchaseContentWithPermit"}
    /\ last.ok
    /\ rewardDistribution = Engine
    /\ contents[last.id].creator = "u1"
    /\ contents[last.id].currentOwner = "u2"
    /\ payouts[totalPayouts - 1].miner = "u1"
    /\ Len(last.legs) >= 1
    /\ last.legs[1].to = "u1"
    /\ last.legs[1].name = "miner"

\* C40: in every reachable state, for every identity x,
\* userReferrals[x].totalEarnings is at most totalReferralEarnings[x];
\* totalReferralEarnings[x] never decreases: registerReferral and
\* deactivateReferral leave it as it is, and a paid referral leg credits it
\* whether or not x has an active record of its own.
C40_RunningTotalDominates ==
    [][ /\ \A x \in Addrs :
              /\ userReferrals[x].totalEarnings <= totalReferralEarnings[x]
              /\ userReferrals'[x].totalEarnings <= totalReferralEarnings'[x]
              /\ totalReferralEarnings'[x] >= totalReferralEarnings[x]
        /\ (CallOf("registerReferral") \/ CallOf("deactivateReferral"))
              => totalReferralEarnings' = totalReferralEarnings
        /\ (CallOf("processContentPurchase") /\ last'.ret = "true")
              => LET r == userReferrals[last'.res[1]]
                     rec == payouts'[totalPayouts]
                 IN  /\ totalReferralEarnings'[r.directReferrer]
                           >= totalReferralEarnings[r.directReferrer]
                                + rec.directReferrerAmount
                     /\ rec.grandReferrerAmount > 0
                           => totalReferralEarnings'[r.grandReferrer]
                                = totalReferralEarnings[r.grandReferrer]
                                    + rec.grandReferrerAmount ]_vars

\* after a second purchase the grand referrer u4, registered again in
\* between, shows less in its record than in the running total, and the
\* direct referrer u3, which never had a record, has been credited
C40_Witness ==
    /\ last.op = "processContentPurchase"
    /\ last.ret = "true"
    /\ totalPayouts = 2
    /\ userReferrals["u4"].totalEarnings > 0
    /\ userReferrals["u4"].totalEarnings < totalReferralEarnings["u4"]
    /\ userReferrals["u3"].directReferrer = ZERO
    /\ ~userReferrals["u3"].isActive
    /\ totalReferralEarnings["u3"] > 0

====
